---- MODULE Spec2Model ----
(***************************************************************************)
(* A model of the club evaluation engine of snuc_coding_club:              *)
(*   backend/services/chat_analyzer.py          WhatsAppChatAnalyzer       *)
(*   backend/services/comprehensive_evaluator.py ComprehensiveClubEvaluator*)
(*   backend/services/evaluation_service.py     ClubEvaluationService      *)
(*   backend/services/data_integration_service.py DataIntegrationService   *)
(*   backend/services/grouping_service.py       ClubGroupingService        *)
(*   backend/services/club_service.py, backend/main.py  the club routes    *)
(*                                                                         *)
(* Conventions.                                                            *)
(*  - Python str values whose characters the code inspects are sequences   *)
(*    of one-character strings.                                            *)
(*  - Python float values are exact fractions <<n, d>> (d > 0, lowest      *)
(*    terms); the rounding of IEEE doubles is not modelled.                *)
(*  - A call that ends in an exception returns [type |-> "raise", ...].    *)
(*  - Every operation is one action that stores the call in `call`; only   *)
(*    the save of a JSON file is a sequence of steps (SpecSave).           *)
(*  - The values of numpy's unseeded random generator are a choice of the  *)
(*    action that makes the call.                                          *)
(*                                                                         *)
(* Specifications: SpecChat and SpecChatDir (chat analyzer), SpecScore     *)
(* (the two evaluators on loaded data), SpecPipe (integrate_all_data       *)
(* followed by get_overall_rankings, over the files in `disk`), SpecGroup  *)
(* (the grouping service), SpecApi (the club routes of the HTTP layer),     *)
(* SpecSave (the writers of the output files), SpecLoad (the construction  *)
(* of the ranking service from its files).                                 *)
(***************************************************************************)
EXTENDS Integers, Sequences, FiniteSets, TLC

VARIABLES
    call,                 \* the last call made: [op, arg, ret]
    service,              \* the object that was constructed
    chat_dir,             \* WhatsAppChatAnalyzer.chat_dir: file name -> file
    social_media_data,    \* ComprehensiveClubEvaluator.social_media_data
    whatsapp_data,        \* ComprehensiveClubEvaluator.whatsapp_data
    clubs_data,           \* ComprehensiveClubEvaluator.clubs_data
    clubs,                \* ClubService.clubs
    events,               \* ClubEvaluationService.events
    social_media_metrics, \* ClubEvaluationService.social_media_metrics
    whatsapp_activity,    \* ClubEvaluationService.whatsapp_activity
    voting_data,          \* ClubEvaluationService.voting_data
    disk,                 \* the JSON files of the data directories
    runs,                 \* what the last two runs of the pipeline produced
    writer                \* the file object of a save under way, or None

\* The state of the objects; a call that only computes leaves it unchanged.
state == <<service, chat_dir, social_media_data, whatsapp_data, clubs_data,
           clubs, events, social_media_metrics, whatsapp_activity, voting_data,
           disk, runs, writer>>

vars == <<call, state>>

(***************************************************************************)
(* Bounds of the model.                                                    *)
(***************************************************************************)
MaxLines == 3

\* The longest run of messages that follows the fillers of a conversation.
MaxTail == 2

(***************************************************************************)
(* Python values.                                                          *)
(***************************************************************************)
None == [type |-> "None"]

Raise(e) == [type |-> "raise", exc |-> e]

NoCall == [op |-> "none", arg |-> None, ret |-> None]

Abs(x) == IF x < 0 THEN -x ELSE x

RECURSIVE GCD(_, _)
GCD(a, b) == IF b = 0 THEN a ELSE GCD(b, a % b)

\* The fraction n/d (d # 0) in lowest terms with a positive denominator.
Rat(n, d) ==
    LET g == GCD(Abs(n), Abs(d))
        s == IF d < 0 THEN -1 ELSE 1
    IN  <<(s * n) \div g, (s * d) \div g>>

RInt(n) == <<n, 1>>

RAdd(a, b) == Rat(a[1] * b[2] + b[1] * a[2], a[2] * b[2])

RMul(a, b) == Rat(a[1] * b[1], a[2] * b[2])

RLe(a, b) == a[1] * b[2] <= b[1] * a[2]

RLt(a, b) == a[1] * b[2] < b[1] * a[2]

\* Python's min(a, b): b when b < a, else a.
RMin(a, b) == IF RLt(b, a) THEN b ELSE a

\* Python's max(a, b): b when b > a, else a.
RMax(a, b) == IF RLt(a, b) THEN b ELSE a

RECURSIVE SeqSum(_)
SeqSum(s) == IF s = <<>> THEN RInt(0) ELSE RAdd(s[1], SeqSum(Tail(s)))

Digits == {"0", "1", "2", "3", "4", "5", "6", "7", "8", "9"}

DigitVal(c) ==
    CASE c = "0" -> 0 [] c = "1" -> 1 [] c = "2" -> 2 [] c = "3" -> 3
      [] c = "4" -> 4 [] c = "5" -> 5 [] c = "6" -> 6 [] c = "7" -> 7
      [] c = "8" -> 8 [] c = "9" -> 9

\* int(s) for a string of decimal digits.
RECURSIVE DigitsToInt(_)
DigitsToInt(s) ==
    IF s = <<>> THEN 0
    ELSE 10 * DigitsToInt(SubSeq(s, 1, Len(s) - 1)) + DigitVal(s[Len(s)])

Whitespace == {" ", "\t", "\n", "\r"}

\* str.strip()
RECURSIVE strip(_)
strip(s) ==
    IF s = <<>> THEN s
    ELSE IF s[1] \in Whitespace THEN strip(Tail(s))
    ELSE IF s[Len(s)] \in Whitespace THEN strip(SubSeq(s, 1, Len(s) - 1))
    ELSE s

LowerChar(c) ==
    CASE c = "A" -> "a" [] c = "B" -> "b" [] c = "C" -> "c" [] c = "D" -> "d"
      [] c = "E" -> "e" [] c = "F" -> "f" [] c = "G" -> "g" [] c = "H" -> "h"
      [] c = "I" -> "i" [] c = "J" -> "j" [] c = "K" -> "k" [] c = "L" -> "l"
      [] c = "M" -> "m" [] c = "N" -> "n" [] c = "O" -> "o" [] c = "P" -> "p"
      [] c = "Q" -> "q" [] c = "R" -> "r" [] c = "S" -> "s" [] c = "T" -> "t"
      [] c = "U" -> "u" [] c = "V" -> "v" [] c = "W" -> "w" [] c = "X" -> "x"
      [] c = "Y" -> "y" [] c = "Z" -> "z"
      [] OTHER -> c

\* str.lower()
lower(s) == [i \in 1..Len(s) |-> LowerChar(s[i])]

\* str.replace(old, new), old not empty: the occurrences from the left.
RECURSIVE replace(_, _, _)
replace(s, old, new) ==
    IF Len(s) < Len(old) THEN s
    ELSE IF SubSeq(s, 1, Len(old)) = old
    THEN new \o replace(SubSeq(s, Len(old) + 1, Len(s)), old, new)
    ELSE <<s[1]>> \o replace(Tail(s), old, new)

\* The first place of a character of cs in s, or 0.
IndexOf(s, cs) ==
    IF \E i \in 1..Len(s) : s[i] \in cs
    THEN CHOOSE i \in 1..Len(s) :
            s[i] \in cs /\ \A j \in 1..(i - 1) : s[j] \notin cs
    ELSE 0

AllDigits(s) == \A i \in 1..Len(s) : s[i] \in Digits

RECURSIVE Pow10(_)
Pow10(n) == IF n = 0 THEN 1 ELSE 10 * Pow10(n - 1)

\* dict.get(k, default)
Get(d, k, default) == IF k \in DOMAIN d THEN d[k] ELSE default

\* Python's `sub in s` for strings.
contains(s, sub) ==
    \E i \in 1..(Len(s) - Len(sub) + 1) : SubSeq(s, i, i + Len(sub) - 1) = sub

(***************************************************************************)
(* chat_analyzer.py: WhatsAppChatAnalyzer                                  *)
(***************************************************************************)
event_keywords ==
  { <<"e","v","e","n","t">>,
    <<"w","o","r","k","s","h","o","p">>,
    <<"c","o","m","p","e","t","i","t","i","o","n">>,
    <<"h","a","c","k","a","t","h","o","n">>,
    <<"m","e","e","t","i","n","g">>,
    <<"s","e","s","s","i","o","n">>,
    <<"p","r","a","c","t","i","c","e">>,
    <<"p","e","r","f","o","r","m","a","n","c","e">>,
    <<"s","h","o","w">>,
    <<"c","o","n","c","e","r","t">>,
    <<"e","x","h","i","b","i","t","i","o","n">>,
    <<"c","o","n","t","e","s","t">>,
    <<"a","u","d","i","t","i","o","n">>,
    <<"r","e","g","i","s","t","r","a","t","i","o","n">>,
    <<"r","e","g","i","s","t","e","r">>,
    <<"p","a","r","t","i","c","i","p","a","t","e">>,
    <<"j","o","i","n">> }

help_keywords ==
  { <<"h","e","l","p">>,
    <<"d","o","u","b","t">>,
    <<"q","u","e","s","t","i","o","n">>,
    <<"p","r","o","b","l","e","m">>,
    <<"i","s","s","u","e">>,
    <<"s","t","u","c","k">>,
    <<"c","o","n","f","u","s","e","d">>,
    <<"c","l","a","r","i","f","i","c","a","t","i","o","n">>,
    <<"e","x","p","l","a","i","n">>,
    <<"h","o","w"," ","t","o">>,
    <<"c","a","n"," ","s","o","m","e","o","n","e">>,
    <<"n","e","e","d"," ","a","s","s","i","s","t","a","n","c","e">> }

collaboration_keywords ==
  { <<"c","o","l","l","a","b">>,
    <<"c","o","l","l","a","b","o","r","a","t","i","o","n">>,
    <<"t","o","g","e","t","h","e","r">>,
    <<"t","e","a","m"," ","u","p">>,
    <<"j","o","i","n","t">>,
    <<"p","a","r","t","n","e","r">>,
    <<"w","o","r","k"," ","w","i","t","h">>,
    <<"c","o","m","b","i","n","e">>,
    <<"m","e","r","g","e">>,
    <<"c","r","o","s","s","-","c","l","u","b">>,
    <<"i","n","t","e","r","-","c","l","u","b">> }

engagement_keywords ==
  { <<"g","r","e","a","t">>,
    <<"a","w","e","s","o","m","e">>,
    <<"e","x","c","e","l","l","e","n","t">>,
    <<"a","m","a","z","i","n","g">>,
    <<"l","o","v","e">>,
    <<"l","i","k","e">>,
    <<"t","h","a","n","k","s">>,
    <<"t","h","a","n","k"," ","y","o","u">>,
    <<"g","o","o","d">>,
    <<"n","i","c","e">>,
    <<"c","o","o","l">>,
    <<"i","n","t","e","r","e","s","t","e","d">>,
    <<"e","x","c","i","t","e","d">> }

\* The chat files and the club each belongs to, in the order of the dict.
club_mapping ==
    << [file |-> "SNUC Coding Club_chat.txt",        id |-> 1, name |-> "SNUC Coding Club"],
       [file |-> "Potential Robotics Club_chat.txt", id |-> 2, name |-> "Potential Robotics Club"],
       [file |-> "SSN-SNUC MUN_chat.txt",            id |-> 3, name |-> "SSN-SNUC MUN"],
       [file |-> "SNUC Rhythm_chat.txt",             id |-> 4, name |-> "SNUC Rhythm"],
       [file |-> "Isai_chat.txt",                    id |-> 5, name |-> "Isai"],
       [file |-> "Montage_chat.txt",                 id |-> 6, name |-> "Montage"] >>

ChatFileNames == {club_mapping[i].file : i \in 1..Len(club_mapping)}

IsLeap(y) == (y % 4 = 0 /\ y % 100 # 0) \/ y % 400 = 0

DaysInMonth(y, m) ==
    IF m = 2 THEN (IF IsLeap(y) THEN 29 ELSE 28)
    ELSE IF m \in {4, 6, 9, 11} THEN 30 ELSE 31

datetime_unchecked(year, month, day) ==
    [type |-> "datetime", year |-> year, month |-> month, day |-> day,
     hour |-> 0, minute |-> 0]

\* datetime(year, month, day): the time of day defaults to 00:00.
datetime(year, month, day) ==
    IF year \in 1..9999 /\ month \in 1..12 /\ day \in 1..DaysInMonth(year, month)
    THEN [type |-> "datetime", year |-> year, month |-> month, day |-> day,
          hour |-> 0, minute |-> 0]
    ELSE Raise("ValueError")

\* The body of the try block: the date of the matched groups, and the record.
parse_matched(line) ==
    LET parts == <<line.dd, line.mm, line.yy>>
        year  == IF Len(parts[3]) = 2 THEN 2000 + DigitsToInt(parts[3])
                 ELSE DigitsToInt(parts[3])
        date  == datetime(year, DigitsToInt(parts[2]), DigitsToInt(parts[1]))
    IN  IF date.type = "raise" THEN date
        ELSE [type |-> "message", date |-> date, time |-> strip(line.time),
              sender |-> strip(line.sender), message |-> strip(line.body)]

parse_no_except(line) ==
    IF line.match THEN parse_matched(line) ELSE None

\* A line is the outcome of re.match on it: whether the pattern matched, and
\* the groups it captured (day, month, year, time, sender, body).
parse_whatsapp_message(line) ==
    IF line.match
    THEN LET r == parse_matched(line)
         IN  IF r.type = "raise" THEN None ELSE r
    ELSE None

\* A count of the keywords found, not of the messages.
_count_keyword_occurrences(messages, keywords) ==
    Cardinality({<<i, keyword>> \in (1..Len(messages)) \X keywords :
        contains(lower(messages[i].message), keyword)})

_count_keyword_messages(messages, keywords) ==
    Cardinality({i \in 1..Len(messages) :
        \E keyword \in keywords : contains(lower(messages[i].message), keyword)})

\* The four capped sub-terms of the engagement score.
density_score(total_messages, total_lines) ==
    IF total_lines > 0
    THEN RMin(RMul(Rat(total_messages, total_lines), RInt(10)), RInt(3))
    ELSE RInt(0)

participation_score(unique_senders) == RMin(Rat(unique_senders, 20), RInt(2))

content_score(event_messages, help_messages, engagement_messages, total_messages) ==
    IF total_messages > 0
    THEN RMin(RMul(Rat(event_messages + help_messages + engagement_messages,
                       total_messages), RInt(5)), RInt(3))
    ELSE RInt(0)

volume_score_uncapped(total_messages) == Rat(total_messages, 100)

volume_score(total_messages) == RMin(Rat(total_messages, 100), RInt(2))

_calculate_engagement_score(total_messages, unique_senders, event_messages, help_messages, engagement_messages, total_lines) ==
    LET total_score ==
            RAdd(RAdd(density_score(total_messages, total_lines),
                      participation_score(unique_senders)),
                 RAdd(content_score(event_messages, help_messages,
                                    engagement_messages, total_messages),
                      volume_score(total_messages)))
    IN  RMin(total_score, RInt(10))

_analyze_monthly_activity(messages) ==
    LET keys == {<<messages[i].date.year, messages[i].date.month>> :
                    i \in 1..Len(messages)}
    IN  [k \in keys |-> Cardinality({i \in 1..Len(messages) :
            <<messages[i].date.year, messages[i].date.month>> = k})]

_analyze_hourly_activity(messages) ==
    LET keys == {messages[i].date.hour : i \in 1..Len(messages)}
    IN  [k \in keys |-> Cardinality({i \in 1..Len(messages) :
            messages[i].date.hour = k})]

\* date.toordinal(): the days from 1 January of year 1, that day being 1.
days_before_year(year) ==
    (year - 1) * 365 + (year - 1) \div 4 - (year - 1) \div 100
        + (year - 1) \div 400

RECURSIVE days_before_month(_, _)
days_before_month(year, month) ==
    IF month = 1 THEN 0
    ELSE days_before_month(year, month - 1) + DaysInMonth(year, month - 1)

toordinal(date) ==
    days_before_year(date.year) + days_before_month(date.year, date.month)
        + date.day

\* (a - b).total_seconds() / 60: the minutes from b to a.
minutes_between(a, b) ==
    (toordinal(a) - toordinal(b)) * 1440 + (a.hour - b.hour) * 60
        + (a.minute - b.minute)

\* '?' in msg['message'] or any(word in msg['message'].lower() for word in
\* ['help', 'doubt', 'how'])
is_question(msg) ==
    \/ contains(msg.message, <<"?">>)
    \/ \E word \in {<<"h","e","l","p">>, <<"d","o","u","b","t">>,
                     <<"h","o","w">>} :
          contains(lower(msg.message), word)

\* The places of the question-like messages, in order.
question_messages(messages) ==
    SelectSeq([i \in 1..Len(messages) |-> i],
              LAMBDA i : is_question(messages[i]))

\* The places the inner loop can visit: the 5 messages after the question.
window(messages, q) ==
    {j \in (q + 1)..(q + 5) : j <= Len(messages)}

\* The latencies of all the messages of the window that are from another
\* sender and less than 2 hours after the question: a loop without break.
RECURSIVE responses_without_break(_, _, _)
responses_without_break(messages, q, j) ==
    IF j \notin window(messages, q) THEN <<>>
    ELSE (IF /\ messages[j].sender # messages[q].sender
             /\ minutes_between(messages[j].date, messages[q].date) < 120
          THEN <<minutes_between(messages[j].date, messages[q].date)>>
          ELSE <<>>)
         \o responses_without_break(messages, q, j + 1)

\* The inner loop from place j on: the first message of another sender
\* ends the loop, and its latency is recorded when it is less than 2 hours.
RECURSIVE responses_to(_, _, _)
responses_to(messages, q, j) ==
    IF j \notin window(messages, q) THEN <<>>
    ELSE IF messages[j].sender # messages[q].sender
    THEN (IF minutes_between(messages[j].date, messages[q].date) < 120
          THEN <<minutes_between(messages[j].date, messages[q].date)>>
          ELSE <<>>)
    ELSE responses_to(messages, q, j + 1)

\* The list response_times after the loop over the questions from place k
\* of question_messages on.
RECURSIVE response_times_from(_, _, _)
response_times_from(messages, questions, k) ==
    IF k > Len(questions) THEN <<>>
    ELSE responses_to(messages, questions[k], questions[k] + 1)
         \o response_times_from(messages, questions, k + 1)

response_times(messages) ==
    response_times_from(messages, question_messages(messages), 1)

\* The dict returned, given the number of questions and the latencies;
\* quick_responses is incremented with every latency appended.
response_patterns(total_questions, times) ==
    [total_questions |-> total_questions,
     quick_responses |-> Len(times),
     response_rate_percentage |->
         IF total_questions > 0
         THEN RMul(Rat(Len(times), total_questions), RInt(100))
         ELSE RInt(0),
     avg_response_time_minutes |->
         IF times # <<>>
         THEN RMul(SeqSum([i \in 1..Len(times) |-> RInt(times[i])]),
                   Rat(1, Len(times)))
         ELSE RInt(0)]

_analyze_response_patterns(messages) ==
    response_patterns(Len(question_messages(messages)),
                      response_times(messages))

\* The record returned for a log in which no line parsed.
EmptyAnalysis ==
    [total_messages |-> 0, unique_senders |-> 0,
     activity_analysis |-> <<>>, engagement_score |-> RInt(0)]

\* The part of analyze_chat_file after the file was read.
analyze_lines(lines) ==
    LET parsed   == [i \in 1..Len(lines) |-> parse_whatsapp_message(lines[i])]
        messages == SelectSeq(parsed, LAMBDA p : p.type = "message")
        total_messages == Len(messages)
        unique_senders ==
            Cardinality({messages[i].sender : i \in 1..Len(messages)})
        event_messages  == _count_keyword_messages(messages, event_keywords)
        help_messages   == _count_keyword_messages(messages, help_keywords)
        collab_messages == _count_keyword_messages(messages, collaboration_keywords)
        engagement_messages ==
            _count_keyword_messages(messages, engagement_keywords)
    IN  IF \E i \in 1..Len(parsed) : parsed[i].type = "raise"
        THEN Raise("ValueError")
        ELSE IF messages = <<>> THEN EmptyAnalysis
        ELSE [total_messages |-> total_messages,
              total_lines |-> Len(lines),
              unique_senders |-> unique_senders,
              content_analysis |->
                  [event_related |-> event_messages,
                   help_requests |-> help_messages,
                   collaboration |-> collab_messages,
                   positive_engagement |-> engagement_messages],
              activity_analysis |->
                  [monthly |-> _analyze_monthly_activity(messages),
                   hourly |-> _analyze_hourly_activity(messages)],
              response_patterns |-> _analyze_response_patterns(messages),
              engagement_score |->
                  _calculate_engagement_score(total_messages, unique_senders,
                      event_messages, help_messages, engagement_messages,
                      Len(lines))]

\* A file is [exists, readable, lines]; open() or readlines() failing makes
\* the method return the empty dict.
analyze_chat_file(file) ==
    IF ~(file.exists /\ file.readable) THEN <<>>
    ELSE analyze_lines(file.lines)

club_key(id) ==
    CASE id = 1 -> "club_1" [] id = 2 -> "club_2" [] id = 3 -> "club_3"
      [] id = 4 -> "club_4" [] id = 5 -> "club_5" [] id = 6 -> "club_6"

\* dict update: the entries of g added to (or replacing those of) f.
Merge(f, g) ==
    [k \in DOMAIN f \cup DOMAIN g |-> IF k \in DOMAIN g THEN g[k] ELSE f[k]]

\* The loop body for one entry of club_mapping, given the results so far.
analyze_one(dir, results, entry) ==
    IF results.type = "raise" THEN results
    ELSE IF dir[entry.file].exists
    THEN LET analysis == analyze_chat_file(dir[entry.file])
         IN  IF "type" \in DOMAIN analysis
             THEN analysis
             ELSE [type |-> "dict",
                   items |-> Merge(results.items,
                       [k \in {club_key(entry.id)} |->
                           Merge(analysis, [club_id |-> entry.id,
                                            club_name |-> entry.name])])]
    ELSE results

RECURSIVE analyze_from(_, _, _)
analyze_from(dir, results, i) ==
    IF i > Len(club_mapping) THEN results
    ELSE analyze_from(dir, analyze_one(dir, results, club_mapping[i]), i + 1)

analyze_all_chats(dir) ==
    analyze_from(dir, [type |-> "dict", items |-> <<>>], 1)

(***************************************************************************)
(* comprehensive_evaluator.py: ComprehensiveClubEvaluator                  *)
(***************************************************************************)
\* A call that returned v.
Ok(v) == [type |-> "ok", v |-> v]

IsRaise(x) == x.type = "raise"

\* JSON values: a string and an integer.
JStr(s) == [type |-> "str", s |-> s]

JInt(n) == [type |-> "int", v |-> n]

\* float(s) for a string: a finite value, an infinity, a NaN or ValueError.
\* A decimal of more than 309 digits before the point is beyond the largest
\* double and gives an infinity.
py_float(s) ==
    LET t    == strip(s)
        neg  == t # <<>> /\ t[1] = "-"
        u    == lower(IF t # <<>> /\ t[1] \in {"+", "-"} THEN Tail(t) ELSE t)
        e    == IndexOf(u, {"e"})
        mant == IF e = 0 THEN u ELSE SubSeq(u, 1, e - 1)
        ex   == IF e = 0 THEN <<>> ELSE SubSeq(u, e + 1, Len(u))
        eneg == ex # <<>> /\ ex[1] = "-"
        edig == IF ex # <<>> /\ ex[1] \in {"+", "-"} THEN Tail(ex) ELSE ex
        dot  == IndexOf(mant, {"."})
        ip   == IF dot = 0 THEN mant ELSE SubSeq(mant, 1, dot - 1)
        fp   == IF dot = 0 THEN <<>> ELSE SubSeq(mant, dot + 1, Len(mant))
        ok   == /\ AllDigits(ip) /\ AllDigits(fp) /\ Len(ip) + Len(fp) >= 1
                /\ (e = 0 \/ (edig # <<>> /\ AllDigits(edig)))
        digits == DigitsToInt(ip \o fp)
        exp10  == (IF e = 0 THEN 0
                   ELSE IF eneg THEN -DigitsToInt(edig) ELSE DigitsToInt(edig))
                  - Len(fp)
        sign == IF neg THEN -1 ELSE 1
    IN  IF u \in {<<"i","n","f">>, <<"i","n","f","i","n","i","t","y">>}
        THEN [type |-> "float", kind |-> "inf", v |-> RInt(sign)]
        ELSE IF u = <<"n","a","n">>
        THEN [type |-> "float", kind |-> "nan", v |-> RInt(0)]
        ELSE IF ~ok THEN Raise("ValueError")
        ELSE IF digits = 0
        THEN [type |-> "float", kind |-> "finite", v |-> RInt(0)]
        ELSE IF exp10 + Len(ip) + Len(fp) > 309
        THEN [type |-> "float", kind |-> "inf", v |-> RInt(sign)]
        ELSE [type |-> "float", kind |-> "finite",
              v |-> IF exp10 >= 0 THEN RInt(sign * digits * Pow10(exp10))
                    ELSE Rat(sign * digits, Pow10(-exp10))]

\* int(f) for a float: the value truncated toward zero.
py_int(f) ==
    IF f.kind = "inf" THEN Raise("OverflowError")
    ELSE IF f.kind = "nan" THEN Raise("ValueError")
    ELSE JInt(IF f.v[1] >= 0 THEN f.v[1] \div f.v[2]
             ELSE -((-f.v[1]) \div f.v[2]))

\* int(float(cleaned)), where float(cleaned) gave f.
int_of_float(f) == IF IsRaise(f) THEN f ELSE py_int(f)

\* except ValueError: return 0.  Only ValueError is caught; any other
\* exception leaves the method.
except_ValueError(n) ==
    IF IsRaise(n) /\ n.exc = "ValueError" THEN JInt(0) ELSE n

_parse_number(value) ==
    IF value.type = "int" THEN JInt(value.v)
    ELSE IF value.type = "str"
    THEN except_ValueError(int_of_float(py_float(
             replace(replace(value.s, <<",">>, <<>>),
                     <<"N", "/", "A">>, <<"0">>))))
    ELSE JInt(0)

evaluator_weights_reach_25 ==
    [social_media |-> Rat(35, 100), chat_engagement |-> Rat(25, 100),
     reach |-> Rat(25, 100), community_activity |-> Rat(15, 100),
     content_quality |-> Rat(5, 100)]

\* The evaluation weights.
evaluator_weights ==
    [social_media |-> Rat(35, 100), chat_engagement |-> Rat(25, 100),
     reach |-> Rat(20, 100), community_activity |-> Rat(15, 100),
     content_quality |-> Rat(5, 100)]

\* club_sm[platform].get('followers', '0') parsed.
platform_followers(club_sm, platform) ==
    _parse_number(Get(club_sm[platform], "followers", JStr(<<"0">>)))

about_is_good(about) == Len(about) > 100 /\ ~contains(about, <<"N", "/", "A">>)

\* The platform scores of a club, its follower counts parsed.
platforms_score(club_sm, ig_followers, li_followers) ==
    LET has_ig  == "instagram" \in DOMAIN club_sm
        has_li  == "linkedin" \in DOMAIN club_sm
        bio_quality ==
            IF Len(Get(club_sm.instagram, "bio", <<>>)) > 50
            THEN RInt(3) ELSE RInt(1)
        ig_score ==
            RAdd(RMin(Rat(ig_followers.v, 100), RInt(5)), bio_quality)
        about_quality ==
            IF about_is_good(Get(club_sm.linkedin, "about", <<>>))
            THEN RInt(4) ELSE RInt(1)
        li_score ==
            RAdd(RMin(Rat(li_followers.v, 50), RInt(4)), about_quality)
        total_score ==
            RAdd(IF has_ig THEN RMin(ig_score, RInt(8)) ELSE RInt(0),
                 IF has_li THEN RMin(li_score, RInt(8)) ELSE RInt(0))
        platform_count ==
            (IF has_ig THEN 1 ELSE 0) + (IF has_li THEN 1 ELSE 0)
    IN  IF has_ig /\ IsRaise(ig_followers) THEN ig_followers
        ELSE IF has_li /\ IsRaise(li_followers) THEN li_followers
        ELSE IF platform_count > 0
        THEN Ok(RMin(RMul(total_score, Rat(1, platform_count)), RInt(10)))
        ELSE Ok(RInt(0))

\* club_data.get('social_media', {})
club_social_media(sm_data, club_id) ==
    IF club_key(club_id) \in DOMAIN sm_data
    THEN Get(sm_data[club_key(club_id)], "social_media", <<>>) ELSE <<>>

calculate_social_media_score(sm_data, club_id) ==
    IF club_key(club_id) \notin DOMAIN sm_data THEN Ok(RInt(0))
    ELSE platforms_score(club_social_media(sm_data, club_id),
             platform_followers(club_social_media(sm_data, club_id), "instagram"),
             platform_followers(club_social_media(sm_data, club_id), "linkedin"))

calculate_chat_engagement_score(wa_data, club_id) ==
    IF club_key(club_id) \notin DOMAIN wa_data THEN Ok(RInt(0))
    ELSE
    LET chat_data  == wa_data[club_key(club_id)]
        base_score == Get(chat_data, "engagement_score", RInt(0))
        response_rate ==
            Get(Get(chat_data, "response_patterns", <<>>),
                "response_rate_percentage", RInt(0))
        content_analysis == Get(chat_data, "content_analysis", <<>>)
        response_bonus ==
            RMin(RMul(RMul(response_rate, Rat(1, 100)), RInt(2)), RInt(2))
        messages == Get(chat_data, "total_messages", 1)
        event_ratio ==
            Rat(Get(content_analysis, "event_related", 0),
                IF messages > 1 THEN messages ELSE 1)
        content_bonus == RMin(RMul(event_ratio, RInt(10)), RInt(1))
        total_score == RAdd(RAdd(base_score, response_bonus), content_bonus)
    IN  Ok(RMin(total_score, RInt(10)))

\* The reach of a club, its follower counts parsed.
reach_score(club_sm, ig_followers, li_followers, wa_data, key) ==
    LET has_ig  == "instagram" \in DOMAIN club_sm
        has_li  == "linkedin" \in DOMAIN club_sm
        senders == IF key \in DOMAIN wa_data
                   THEN Get(wa_data[key], "unique_senders", 0) * 2 ELSE 0
        total_followers ==
            (IF has_ig THEN ig_followers.v ELSE 0)
            + (IF has_li THEN li_followers.v ELSE 0) + senders
    IN  IF has_ig /\ IsRaise(ig_followers) THEN ig_followers
        ELSE IF has_li /\ IsRaise(li_followers) THEN li_followers
        ELSE Ok(RMin(Rat(total_followers, 200), RInt(10)))

calculate_combined_reach_score(sm_data, wa_data, club_id) ==
    reach_score(club_social_media(sm_data, club_id),
        platform_followers(club_social_media(sm_data, club_id), "instagram"),
        platform_followers(club_social_media(sm_data, club_id), "linkedin"),
        wa_data, club_key(club_id))

calculate_community_activity_score(wa_data, club_id) ==
    IF club_key(club_id) \notin DOMAIN wa_data THEN Ok(RInt(0))
    ELSE
    LET chat_data == wa_data[club_key(club_id)]
        message_score ==
            RMin(Rat(Get(chat_data, "total_messages", 0), 200), RInt(5))
        participation ==
            RMin(Rat(Get(chat_data, "unique_senders", 0), 20), RInt(3))
        monthly_activity ==
            Get(Get(chat_data, "activity_analysis", <<>>), "monthly", <<>>)
        active_months ==
            Cardinality({m \in DOMAIN monthly_activity : monthly_activity[m] > 0})
        consistency_score == RMin(Rat(active_months, 6), RInt(2))
        total_score ==
            RAdd(RAdd(message_score, participation), consistency_score)
    IN  Ok(RMin(total_score, RInt(10)))

bio_is_good(bio) ==
    /\ Len(bio) > 50
    /\ \E word \in {<<"o","f","f","i","c","i","a","l">>, <<"c","l","u","b">>,
                    <<"c","o","m","m","u","n","i","t","y">>} :
          contains(lower(bio), word)

calculate_content_quality_score(sm_data, wa_data, club_id) ==
    LET key     == club_key(club_id)
        club_sm == IF key \in DOMAIN sm_data
                   THEN Get(sm_data[key], "social_media", <<>>) ELSE <<>>
        bio_score ==
            IF "instagram" \in DOMAIN club_sm
               /\ bio_is_good(Get(club_sm.instagram, "bio", <<>>))
            THEN RInt(2) ELSE RInt(0)
        about_score ==
            IF "linkedin" \in DOMAIN club_sm
               /\ about_is_good(Get(club_sm.linkedin, "about", <<>>))
            THEN RInt(3) ELSE RInt(0)
        chat_data == wa_data[key]
        content_analysis == Get(chat_data, "content_analysis", <<>>)
        messages == Get(chat_data, "total_messages", 1)
        total_messages == IF messages > 1 THEN messages ELSE 1
        event_ratio ==
            Rat(Get(content_analysis, "event_related", 0), total_messages)
        help_ratio ==
            Rat(Get(content_analysis, "help_requests", 0), total_messages)
        collab_ratio ==
            Rat(Get(content_analysis, "collaboration", 0), total_messages)
        chat_score ==
            IF key \in DOMAIN wa_data
            THEN RAdd(RMin(RMul(event_ratio, RInt(30)), RInt(3)),
                      RMin(RMul(RAdd(help_ratio, collab_ratio), RInt(20)),
                           RInt(2)))
            ELSE RInt(0)
    IN  Ok(RMin(RAdd(RAdd(bio_score, about_score), chat_score), RInt(10)))

\* The weighted sum of the five sub-scores.
evaluator_overall(w, sm, chat, reach, activity, content) ==
    RAdd(RAdd(RAdd(RMul(sm, w.social_media), RMul(chat, w.chat_engagement)),
              RAdd(RMul(reach, w.reach), RMul(activity, w.community_activity))),
         RMul(content, w.content_quality))

\* f'Club {club_id}'
default_club_name(club_id) ==
    CASE club_id = 1 -> "Club 1" [] club_id = 2 -> "Club 2"
      [] club_id = 3 -> "Club 3" [] club_id = 4 -> "Club 4"
      [] club_id = 5 -> "Club 5" [] club_id = 6 -> "Club 6"

\* ClubEvaluationResult(...) of the five scores, or the exception one of
\* them raised.
ClubEvaluationResult(c_data, club_id, sm, chat, reach, activity, content) ==
    IF IsRaise(sm) THEN sm
    ELSE IF IsRaise(reach) THEN reach
    ELSE [type |-> "ClubEvaluationResult",
          club_id |-> club_id,
          club_name |-> IF club_id \in DOMAIN c_data
                        THEN c_data[club_id].name
                        ELSE default_club_name(club_id),
          overall_score |->
              evaluator_overall(evaluator_weights, sm.v, chat.v, reach.v,
                                activity.v, content.v),
          social_media_score |-> sm.v,
          chat_engagement_score |-> chat.v,
          combined_reach_score |-> reach.v,
          community_activity_score |-> activity.v,
          content_quality_score |-> content.v,
          rank |-> 0]

evaluate_club(sm_data, wa_data, c_data, club_id) ==
    ClubEvaluationResult(c_data, club_id,
        calculate_social_media_score(sm_data, club_id),
        calculate_chat_engagement_score(wa_data, club_id),
        calculate_combined_reach_score(sm_data, wa_data, club_id),
        calculate_community_activity_score(wa_data, club_id),
        calculate_content_quality_score(sm_data, wa_data, club_id))

\* list.sort(key = overall_score, reverse = True): a stable sort; x goes
\* behind the elements whose score is not smaller.
\* An unstable insertion: x goes before the elements of equal score.
RECURSIVE InsertBeforeTies(_, _)
InsertBeforeTies(s, x) ==
    IF s = <<>> THEN <<x>>
    ELSE IF RLe(s[1].overall_score, x.overall_score) THEN <<x>> \o s
    ELSE <<s[1]>> \o InsertBeforeTies(Tail(s), x)

RECURSIVE InsertDescending(_, _)
InsertDescending(s, x) ==
    IF s = <<>> THEN <<x>>
    ELSE IF RLt(s[1].overall_score, x.overall_score) THEN <<x>> \o s
    ELSE <<s[1]>> \o InsertDescending(Tail(s), x)

Unsorted(s) == s

RECURSIVE SortDescending(_)
SortDescending(s) ==
    IF s = <<>> THEN <<>>
    ELSE InsertDescending(SortDescending(SubSeq(s, 1, Len(s) - 1)), s[Len(s)])

\* for i, result in enumerate(results): result.rank = i + 1
AssignRanks(s) == [i \in 1..Len(s) |-> [s[i] EXCEPT !.rank = i]]

\* int(key.split('_')[1]) for the keys club_1 .. club_6.
key_club_id(key) ==
    CASE key = "club_1" -> 1 [] key = "club_2" -> 2 [] key = "club_3" -> 3
      [] key = "club_4" -> 4 [] key = "club_5" -> 5 [] key = "club_6" -> 6

\* The club ids of the social-media snapshot alone.
social_media_club_ids(sm_data, wa_data, c_data) ==
    {key_club_id(k) : k \in DOMAIN sm_data}

\* The set club_ids of evaluate_all_clubs.
all_club_ids(sm_data, wa_data, c_data) ==
    {key_club_id(k) : k \in DOMAIN sm_data} \cup
    {key_club_id(k) : k \in DOMAIN wa_data} \cup DOMAIN c_data

\* The list results sorted and ranked, or the first exception raised while
\* it was built.
ranked(results) ==
    IF \E i \in 1..Len(results) : IsRaise(results[i])
    THEN results[CHOOSE i \in 1..Len(results) :
                    /\ IsRaise(results[i])
                    /\ \A j \in 1..(i - 1) : ~IsRaise(results[j])]
    ELSE [type |-> "list", items |-> AssignRanks(SortDescending(results))]

\* for club_id in club_ids: results.append(self.evaluate_club(club_id))
RECURSIVE evaluate_each(_, _, _, _)
evaluate_each(sm_data, wa_data, c_data, order) ==
    IF order = <<>> THEN <<>>
    ELSE <<evaluate_club(sm_data, wa_data, c_data, order[1])>>
         \o evaluate_each(sm_data, wa_data, c_data, Tail(order))

\* evaluate_all_clubs, with the order in which the set club_ids is iterated.
evaluate_all_clubs(sm_data, wa_data, c_data, order) ==
    ranked(evaluate_each(sm_data, wa_data, c_data, order))

(***************************************************************************)
(* evaluation_service.py: ClubEvaluationService                            *)
(***************************************************************************)
\* The evaluation weights.
service_weights ==
    [social_media |-> Rat(2, 10), event_impact |-> Rat(3, 10),
     community_engagement |-> Rat(25, 100), collaboration |-> Rat(15, 100),
     voting |-> Rat(1, 10)]

\* str(club_id)
club_str(id) ==
    CASE id = 1 -> "1" [] id = 2 -> "2" [] id = 3 -> "3"
      [] id = 4 -> "4" [] id = 5 -> "5" [] id = 6 -> "6"

ForClub(records, club_id) == SelectSeq(records, LAMBDA r : r.club_id = club_id)

platform_score(metric) ==
    LET engagement_score == RMin(metric.engagement_rate, RInt(10))
        activity_score   == RMin(Rat(metric.posts_last_month, 5), RInt(10))
        collaboration    == RMin(RInt(metric.collaboration_posts * 2), RInt(10))
    IN  RMul(RAdd(RAdd(engagement_score, activity_score), collaboration),
             Rat(1, 3))

_calculate_social_media_score(metrics, club_id) ==
    LET club_metrics == ForClub(metrics, club_id)
    IN  IF club_metrics = <<>> THEN Ok(RInt(0))
        ELSE Ok(RMin(RMul(SeqSum([i \in 1..Len(club_metrics) |->
                                     platform_score(club_metrics[i])]),
                          Rat(1, Len(club_metrics))), RInt(10)))

event_score(event) ==
    LET participation == RMin(Rat(event.participants, 50), RInt(10))
        duration      == RMin(Rat(event.duration_hours, 8), RInt(10))
    IN  RAdd(RAdd(RMul(event.impact_score, Rat(5, 10)),
                  RMul(participation, Rat(3, 10))),
             RMul(duration, Rat(2, 10)))

_calculate_event_impact_score(evts, club_id) ==
    LET club_events == ForClub(evts, club_id)
    IN  IF club_events = <<>> THEN Ok(RInt(0))
        ELSE Ok(RMin(RMul(SeqSum([i \in 1..Len(club_events) |->
                                     event_score(club_events[i])]),
                          Rat(1, Len(club_events))), RInt(10)))

_calculate_community_engagement_score(activities, club_id) ==
    LET club_activities == ForClub(activities, club_id)
    IN  IF club_activities = <<>> THEN Ok(RInt(0))
        ELSE Ok(RMin(RMul(SeqSum([i \in 1..Len(club_activities) |->
                                     club_activities[i].engagement_score]),
                          Rat(1, Len(club_activities))), RInt(10)))

RECURSIVE IntSum(_)
IntSum(s) == IF s = <<>> THEN 0 ELSE s[1] + IntSum(Tail(s))

_calculate_collaboration_score(evts, metrics, activities, club_id) ==
    LET collaborative_events ==
            SelectSeq(evts, LAMBDA e :
                e.club_id = club_id /\ e.collaboration_clubs # <<>>)
        club_posts == ForClub(metrics, club_id)
        collaborative_posts ==
            IntSum([i \in 1..Len(club_posts) |->
                       club_posts[i].collaboration_posts])
        club_messages == ForClub(activities, club_id)
        collaborative_messages ==
            IntSum([i \in 1..Len(club_messages) |->
                       club_messages[i].collaboration_messages])
        events_score   == RMin(RInt(Len(collaborative_events) * 2), RInt(10))
        posts_score    == RMin(RInt(collaborative_posts), RInt(10))
        messages_score == RMin(Rat(collaborative_messages, 5), RInt(10))
    IN  Ok(RMul(RAdd(RAdd(events_score, posts_score), messages_score),
                Rat(1, 3)))

\* The sum of the values of a dict.
RECURSIVE DictSum(_)
DictSum(f) ==
    IF DOMAIN f = {} THEN RInt(0)
    ELSE LET k == CHOOSE x \in DOMAIN f : TRUE
         IN  RAdd(f[k], DictSum([x \in DOMAIN f \ {k} |-> f[x]]))

_calculate_voting_score(votes, club_id) ==
    IF DOMAIN votes = {} \/ "vote_summary" \notin DOMAIN votes
    THEN Ok(RInt(5))
    ELSE
    LET vote_summary == votes.vote_summary
        categories   == Get(vote_summary, "categories", <<>>)
        total_votes  == Get(vote_summary, "total_votes", 1)
        category_score(category) ==
            LET club_votes == Get(categories[category], club_str(club_id), 0)
            IN  RMin(RMul(RMul(Rat(club_votes, total_votes), RInt(100)),
                          RInt(2)), RInt(10))
        category_count == Cardinality(DOMAIN categories)
    IN  IF category_count = 0 THEN Ok(RInt(5))
        ELSE IF total_votes = 0 THEN Raise("ZeroDivisionError")
        ELSE Ok(RMul(DictSum([c \in DOMAIN categories |-> category_score(c)]),
                     Rat(1, category_count)))

\* The weighted sum of the five sub-scores.
service_overall(w, sm, event, community, collaboration, voting) ==
    RAdd(RAdd(RAdd(RMul(sm, w.social_media), RMul(event, w.event_impact)),
              RAdd(RMul(community, w.community_engagement),
                   RMul(collaboration, w.collaboration))),
         RMul(voting, w.voting))

calculate_club_metrics(evts, metrics, activities, votes, club_id) ==
    LET sm        == _calculate_social_media_score(metrics, club_id)
        event     == _calculate_event_impact_score(evts, club_id)
        community == _calculate_community_engagement_score(activities, club_id)
        collab    == _calculate_collaboration_score(evts, metrics, activities,
                                                    club_id)
        voting    == _calculate_voting_score(votes, club_id)
    IN  IF IsRaise(voting) THEN voting
        ELSE [type |-> "EvaluationMetrics",
              club_id |-> club_id,
              social_media_score |-> sm.v,
              event_impact_score |-> event.v,
              community_engagement_score |-> community.v,
              collaboration_score |-> collab.v,
              voting_score |-> voting.v,
              overall_score |->
                  service_overall(service_weights, sm.v, event.v, community.v,
                                  collab.v, voting.v)]

\* get_overall_rankings; overall_score is the sort key metrics.overall_score.
get_overall_rankings(club_list, evts, metrics, activities, votes) ==
    LET all_metrics == [i \in 1..Len(club_list) |->
            calculate_club_metrics(evts, metrics, activities, votes,
                                   club_list[i].id)]
        rankings == [i \in 1..Len(club_list) |->
            [type |-> "ClubRanking", rank |-> 0, club |-> club_list[i],
             metrics |-> all_metrics[i],
             overall_score |-> all_metrics[i].overall_score]]
    IN  IF \E i \in 1..Len(club_list) : IsRaise(all_metrics[i])
        THEN all_metrics[CHOOSE i \in 1..Len(club_list) :
                            /\ IsRaise(all_metrics[i])
                            /\ \A j \in 1..(i - 1) : ~IsRaise(all_metrics[j])]
        ELSE [type |-> "list", items |-> AssignRanks(SortDescending(rankings))]

(***************************************************************************)
(* backend/services/data_integration_service.py and the loaders of         *)
(* ClubService and ClubEvaluationService.  A JSON file is absent, holds a  *)
(* text that json.load rejects, or holds a value; a JSON object that the   *)
(* code iterates is the sequence of its                                    *)
(* [key, data] entries in the order of the file.  Fields that no code of   *)
(* the model reads are left out of the records.                            *)
(***************************************************************************)
NoFile == [type |-> "missing"]

\* A file whose text is no JSON: json.load raises JSONDecodeError.
CorruptFile == [type |-> "corrupt"]

JsonFile(v) == [type |-> "json", v |-> v]

\* Python's max(a, b) and min(a, b) of two ints.
Max(a, b) == IF b > a THEN b ELSE a

Min(a, b) == IF b < a THEN b ELSE a

\* int(x) of a float x: the value truncated toward zero.
trunc(x) == IF x[1] >= 0 THEN x[1] \div x[2] ELSE -((-x[1]) \div x[2])

\* The digits of an int literal: digits with single underscores between.
IsIntLiteral(d) ==
    /\ d # <<>>
    /\ \A i \in 1..Len(d) : d[i] \in Digits \cup {"_"}
    /\ d[1] # "_" /\ d[Len(d)] # "_"
    /\ \A i \in 1..(Len(d) - 1) : ~(d[i] = "_" /\ d[i + 1] = "_")

\* int(s) of the stripped str t.
int_of_stripped(t) ==
    IF t # <<>> /\ t[1] \in {"+", "-"}
    THEN IF IsIntLiteral(Tail(t))
         THEN JInt((IF t[1] = "-" THEN -1 ELSE 1)
                   * DigitsToInt(SelectSeq(Tail(t), LAMBDA c : c # "_")))
         ELSE Raise("ValueError")
    ELSE IF IsIntLiteral(t)
         THEN JInt(DigitsToInt(SelectSeq(t, LAMBDA c : c # "_")))
         ELSE Raise("ValueError")

\* int(followers_str.replace(',', '').replace('.', '')); a value that is
\* not a str has no replace.
followers_int(followers_str) ==
    IF followers_str.type # "str" THEN Raise("AttributeError")
    ELSE int_of_stripped(strip(
             replace(replace(followers_str.s, <<",">>, <<>>), <<".">>, <<>>)))

\* The followers of social_media[platform].
followers_of(social_media, platform) ==
    followers_int(Get(social_media[platform], "followers", JStr(<<"0">>)))

instagram_metric(club_id, followers, collaboration_posts) ==
    [club_id |-> club_id, platform |-> "instagram", followers |-> followers,
     posts_last_month |-> Max(5, followers \div 100),
     engagement_rate |-> RMin(RInt(8), RMax(RInt(2), Rat(followers, 500))),
     avg_likes |-> Max(10, followers \div 10),
     avg_comments |-> Max(2, followers \div 50),
     story_views |-> trunc(Rat(followers * 7, 10)),
     collaboration_posts |-> collaboration_posts]

linkedin_metric(club_id, followers, collaboration_posts) ==
    [club_id |-> club_id, platform |-> "linkedin", followers |-> followers,
     posts_last_month |-> Max(2, followers \div 50),
     engagement_rate |-> RMin(RInt(5), RMax(RInt(1), Rat(followers, 100))),
     avg_likes |-> Max(5, followers \div 20),
     avg_comments |-> Max(1, followers \div 100),
     story_views |-> 0,
     collaboration_posts |-> collaboration_posts]

\* The records appended for one club, its followers ig and li parsed;
\* draw holds the values np.random.randint returns for the club.
platform_metrics(club_id, social_media, ig, li, draw) ==
    IF "instagram" \in DOMAIN social_media /\ IsRaise(ig) THEN ig
    ELSE IF "linkedin" \in DOMAIN social_media /\ IsRaise(li) THEN li
    ELSE Ok((IF "instagram" \in DOMAIN social_media
             THEN <<instagram_metric(club_id, ig.v, draw.instagram)>>
             ELSE <<>>)
            \o (IF "linkedin" \in DOMAIN social_media
                THEN <<linkedin_metric(club_id, li.v, draw.linkedin)>>
                ELSE <<>>))

club_metric_records(club_data, draw) ==
    IF "club_id" \notin DOMAIN club_data THEN Raise("KeyError")
    ELSE platform_metrics(club_data.club_id,
             Get(club_data, "social_media", <<>>),
             followers_of(Get(club_data, "social_media", <<>>), "instagram"),
             followers_of(Get(club_data, "social_media", <<>>), "linkedin"),
             draw)

\* a followed by b, or the exception of the first that raised.
Extend(a, b) ==
    IF IsRaise(a) THEN a ELSE IF IsRaise(b) THEN b ELSE Ok(a.v \o b.v)

RECURSIVE collect_metrics(_, _, _)
collect_metrics(social_data, draws, i) ==
    IF i > Len(social_data) THEN Ok(<<>>)
    ELSE Extend(club_metric_records(social_data[i].data, draws[i]),
                collect_metrics(social_data, draws, i + 1))

\* except Exception: return []
except_Exception(r) == IF IsRaise(r) THEN <<>> ELSE r.v

\* get_social_media_metrics, with the values the random generator returns.
get_social_media_metrics(social_media_file, draws) ==
    except_Exception(
        IF social_media_file.type = "missing" THEN Raise("FileNotFoundError")
        ELSE collect_metrics(social_media_file.v, draws, 1))

\* The record of one month of a club.
month_activity(club_data, month, message_count) ==
    [club_id |-> club_data.club_id,
     month |-> month,
     total_messages |-> message_count,
     active_members |-> Min(Get(club_data, "unique_senders", 0),
                            Max(5, message_count \div 10)),
     avg_messages_per_day |-> message_count \div 30,
     event_discussions |->
         Get(Get(club_data, "content_analysis", <<>>), "event_related", 0),
     help_requests |->
         Get(Get(club_data, "content_analysis", <<>>), "help_requests", 0),
     collaboration_messages |->
         Get(Get(club_data, "content_analysis", <<>>), "collaboration", 0),
     engagement_score |-> Get(club_data, "engagement_score", RInt(0))]

\* The single record of a club without monthly data.
overall_activity(club_data, total_messages) ==
    [club_id |-> club_data.club_id,
     month |-> "2024-overall",
     total_messages |-> total_messages,
     active_members |-> Get(club_data, "unique_senders", 0),
     avg_messages_per_day |->
         IF total_messages > 0 THEN total_messages \div 365 ELSE 0,
     event_discussions |->
         Get(Get(club_data, "content_analysis", <<>>), "event_related", 0),
     help_requests |->
         Get(Get(club_data, "content_analysis", <<>>), "help_requests", 0),
     collaboration_messages |->
         Get(Get(club_data, "content_analysis", <<>>), "collaboration", 0),
     engagement_score |-> Get(club_data, "engagement_score", RInt(0))]

\* The records of one club; monthly_activity is the sequence of the
\* [month, count] entries of activity_analysis.monthly.
club_activity_records(club_data, monthly_activity) ==
    IF "club_id" \notin DOMAIN club_data THEN <<>>
    ELSE IF monthly_activity # <<>>
    THEN [i \in 1..Len(monthly_activity) |->
             month_activity(club_data, monthly_activity[i].month,
                            monthly_activity[i].count)]
    ELSE <<overall_activity(club_data, Get(club_data, "total_messages", 0))>>

RECURSIVE collect_activities(_, _)
collect_activities(whatsapp_data_entries, i) ==
    IF i > Len(whatsapp_data_entries) THEN <<>>
    ELSE club_activity_records(whatsapp_data_entries[i].data,
             Get(Get(whatsapp_data_entries[i].data, "activity_analysis", <<>>),
                 "monthly", <<>>))
         \o collect_activities(whatsapp_data_entries, i + 1)

get_whatsapp_activity_metrics(whatsapp_file) ==
    IF whatsapp_file.type = "missing" THEN <<>>
    ELSE collect_activities(whatsapp_file.v, 1)

\* The followers of the platforms of a club added up, or the exception.
total_followers(social_media, ig, li) ==
    IF "instagram" \in DOMAIN social_media /\ IsRaise(ig) THEN ig
    ELSE IF "linkedin" \in DOMAIN social_media /\ IsRaise(li) THEN li
    ELSE Ok((IF "instagram" \in DOMAIN social_media THEN ig.v ELSE 0)
            + (IF "linkedin" \in DOMAIN social_media THEN li.v ELSE 0))

\* club['member_count'] = int(total_followers * 1.2), whatever it was.
member_count_from_followers(club, total) ==
    IF IsRaise(total) THEN total
    ELSE Ok([club EXCEPT !.member_count = trunc(Rat(total.v * 12, 10))])

\* club['member_count'] =
\*     max(club.get('member_count', 50), int(total_followers * 1.2))
with_member_count(club, total) ==
    IF IsRaise(total) THEN total
    ELSE Ok([club EXCEPT !.member_count =
                Max(club.member_count, trunc(Rat(total.v * 12, 10)))])

\* The place of the first entry of social_data with the club_id, 0 when
\* there is none; an entry without club_id in front of it is a KeyError.
RECURSIVE find_club(_, _, _)
find_club(social_data, club_id, i) ==
    IF i > Len(social_data) THEN Ok(0)
    ELSE IF "club_id" \notin DOMAIN social_data[i].data THEN Raise("KeyError")
    ELSE IF social_data[i].data.club_id = club_id THEN Ok(i)
    ELSE find_club(social_data, club_id, i + 1)

\* The club after the inner loop, which found the entry at place found.
updated_club(club, social_data, found) ==
    IF IsRaise(found) THEN found
    ELSE IF found.v = 0 THEN Ok(club)
    ELSE with_member_count(club,
             total_followers(
                 Get(social_data[found.v].data, "social_media", <<>>),
                 followers_of(Get(social_data[found.v].data, "social_media",
                                  <<>>), "instagram"),
                 followers_of(Get(social_data[found.v].data, "social_media",
                                  <<>>), "linkedin")))

\* a list with one more element in front, or the exception.
Cons(x, rest) ==
    IF IsRaise(x) THEN x ELSE IF IsRaise(rest) THEN rest
    ELSE Ok(<<x.v>> \o rest.v)

RECURSIVE update_clubs(_, _, _)
update_clubs(club_list, social_data, i) ==
    IF i > Len(club_list) THEN Ok(<<>>)
    ELSE Cons(updated_club(club_list[i], social_data,
                           find_club(social_data, club_list[i].id, 1)),
              update_clubs(club_list, social_data, i + 1))

\* The clubs file as it is after the rewrite, or as it was when an
\* exception kept the method from writing.
rewritten(clubs_file, updated) ==
    IF IsRaise(updated) THEN clubs_file
    ELSE JsonFile([clubs_file.v EXCEPT !.clubs = updated.v])

\* clubs.json after update_clubs_data_with_real_metrics.
update_clubs_data_with_real_metrics(clubs_file, social_media_file) ==
    IF clubs_file.type = "missing" \/ social_media_file.type = "missing"
    THEN clubs_file
    ELSE IF "clubs" \notin DOMAIN clubs_file.v THEN clubs_file
    ELSE rewritten(clubs_file,
                   update_clubs(clubs_file.v.clubs, social_media_file.v, 1))

\* The files of the data directory after integrate_all_data.
integrate_all_data(files, draws) ==
    [files EXCEPT
        !.social_media_metrics =
            JsonFile([social_media_metrics |->
                         get_social_media_metrics(files.social_media_data, draws)]),
        !.whatsapp_activity =
            JsonFile([whatsapp_activity |->
                         get_whatsapp_activity_metrics(files.whatsapp_analysis)]),
        !.clubs =
            update_clubs_data_with_real_metrics(files.clubs,
                                                files.social_media_data)]

\* The fields of the pydantic models that the model keeps.
ClubFields ==
    {"id", "name", "category", "member_count", "activities", "keywords"}

EventFields ==
    {"id", "club_id", "participants", "duration_hours", "impact_score",
     "collaboration_clubs"}

SocialMediaMetricFields ==
    {"club_id", "platform", "followers", "posts_last_month", "engagement_rate",
     "avg_likes", "avg_comments", "story_views", "collaboration_posts"}

WhatsAppActivityFields ==
    {"club_id", "month", "total_messages", "active_members",
     "avg_messages_per_day", "event_discussions", "help_requests",
     "collaboration_messages", "engagement_score"}

\* The list file[key] turned into model objects; [] when the file is
\* absent or no JSON, has no such key or holds a record without a required
\* field.
load_records(file, key, fields) ==
    IF file.type # "json" THEN <<>>
    ELSE IF key \notin DOMAIN file.v THEN <<>>
    ELSE IF \E i \in 1..Len(file.v[key]) : ~(fields \subseteq DOMAIN file.v[key][i])
    THEN <<>>
    ELSE file.v[key]

_load_clubs(file) == load_records(file, "clubs", ClubFields)

_load_events(file) == load_records(file, "events", EventFields)

_load_social_media_metrics(file) ==
    load_records(file, "social_media_metrics", SocialMediaMetricFields)

_load_whatsapp_activity(file) ==
    load_records(file, "whatsapp_activity", WhatsAppActivityFields)

\* A loader without the try: the exception of open or json.load.
_load_voting_data_or_raise(file) ==
    IF file.type # "json" THEN Raise("Exception") ELSE file.v

_load_voting_data(file) == IF file.type # "json" THEN <<>> ELSE file.v

(***************************************************************************)
(* grouping_service.py: ClubGroupingService                                *)
(***************************************************************************)
\* self.group_definitions, in the order of the dict; the descriptions are
\* left out.
group_definitions ==
    << [group_name |-> "Technical & Innovation",
        keywords |->
          <<<<"c", "o", "d", "i", "n", "g">>,
            <<"p", "r", "o", "g", "r", "a", "m", "m", "i", "n", "g">>,
            <<"t", "e", "c", "h", "n", "o", "l", "o", "g", "y">>,
            <<"s", "o", "f", "t", "w", "a", "r", "e">>,
            <<"r", "o", "b", "o", "t", "i", "c", "s">>,
            <<"a", "u", "t", "o", "m", "a", "t", "i", "o", "n">>,
            <<"e", "l", "e", "c", "t", "r", "o", "n", "i", "c", "s">>,
            <<"I", "o", "T">>>>,
        categories |-> {"technical"}],
      [group_name |-> "Performing Arts",
        keywords |->
          <<<<"d", "a", "n", "c", "e">>,
            <<"m", "u", "s", "i", "c">>,
            <<"p", "e", "r", "f", "o", "r", "m", "a", "n", "c", "e">>,
            <<"s", "i", "n", "g", "i", "n", "g">>,
            <<"i", "n", "s", "t", "r", "u", "m", "e", "n", "t", "s">>,
            <<"c", "h", "o", "r", "e", "o", "g", "r", "a", "p", "h", "y">>>>,
        categories |-> {"performing_arts"}],
      [group_name |-> "Creative & Visual Arts",
        keywords |->
          <<<<"p", "h", "o", "t", "o", "g", "r", "a", "p", "h", "y">>,
            <<"v", "i", "d", "e", "o", "g", "r", "a", "p", "h", "y">>,
            <<"v", "i", "s", "u", "a", "l">>,
            <<"c", "r", "e", "a", "t", "i", "v", "i", "t", "y">>,
            <<"e", "d", "i", "t", "i", "n", "g">>,
            <<"s", "t", "o", "r", "y", "t", "e", "l", "l", "i", "n", "g">>>>,
        categories |-> {"creative_arts"}],
      [group_name |-> "Leadership & Communication",
        keywords |->
          <<<<"d", "e", "b", "a", "t", "e">>,
            <<"p", "u", "b", "l", "i", "c", " ", "s", "p", "e", "a", "k", "i", "n", "g">>,
            <<"l", "e", "a", "d", "e", "r", "s", "h", "i", "p">>,
            <<"d", "i", "p", "l", "o", "m", "a", "c", "y">>,
            <<"c", "o", "m", "m", "u", "n", "i", "c", "a", "t", "i", "o", "n">>>>,
        categories |-> {"debate_discussion"}] >>

\* [t.lower() for t in texts]
lower_all(texts) == [i \in 1..Len(texts) |-> lower(texts[i])]

\* any(group_kw.lower() in text for text in texts_lower)
keyword_in_any(group_kw, texts_lower) ==
    \E i \in 1..Len(texts_lower) : contains(texts_lower[i], lower(group_kw))

\* The club matches the keyword by one of its keywords or activities.
keyword_matches_club(group_kw, club) ==
    \/ keyword_in_any(group_kw, lower_all(club.keywords))
    \/ keyword_in_any(group_kw, lower_all(club.activities))

\* The club goes into the group: by its category, else by a keyword.
club_in_group(club, group_def) ==
    \/ club.category \in group_def.categories
    \/ \E k \in 1..Len(group_def.keywords) :
          keyword_matches_club(group_def.keywords[k], club)

\* keyword_matches / len(group_keywords) for one club.
club_keyword_score(club, group_keywords) ==
    IF group_keywords = <<>> THEN RInt(0)
    ELSE Rat(Cardinality({k \in 1..Len(group_keywords) :
                             keyword_matches_club(group_keywords[k], club)}),
             Len(group_keywords))

_calculate_group_similarity(club_list, group_keywords) ==
    IF club_list = <<>> THEN RInt(0)
    ELSE RMin(RMul(SeqSum([i \in 1..Len(club_list) |->
                              club_keyword_score(club_list[i], group_keywords)]),
                   Rat(1, Len(club_list))),
              RInt(1))

\* The ClubGroup of a group definition and its member list.
predefined_group(group_def, group_clubs) ==
    [group_name |-> group_def.group_name,
     clubs |-> group_clubs,
     similarity_score |->
         _calculate_group_similarity(group_clubs, group_def.keywords)]

\* A group for every definition from place k on, with or without members.
RECURSIVE all_groups_from(_, _)
all_groups_from(club_list, k) ==
    IF k > Len(group_definitions) THEN <<>>
    ELSE <<predefined_group(group_definitions[k],
               SelectSeq(club_list, LAMBDA club :
                   club_in_group(club, group_definitions[k])))>>
         \o all_groups_from(club_list, k + 1)

\* The groups of the definitions from place k on; a definition without a
\* member gives no group.
RECURSIVE predefined_groups_from(_, _)
predefined_groups_from(club_list, k) ==
    IF k > Len(group_definitions) THEN <<>>
    ELSE (IF SelectSeq(club_list, LAMBDA club :
                 club_in_group(club, group_definitions[k])) # <<>>
          THEN <<predefined_group(group_definitions[k],
                     SelectSeq(club_list, LAMBDA club :
                         club_in_group(club, group_definitions[k])))>>
          ELSE <<>>)
         \o predefined_groups_from(club_list, k + 1)

_create_predefined_groups(club_list) == predefined_groups_from(club_list, 1)

\* The ids of the clubs of the groups.
grouped_club_ids(groups) ==
    UNION {{groups[g].clubs[i].id : i \in 1..Len(groups[g].clubs)} :
              g \in 1..Len(groups)}

\* The groups and a Miscellaneous group, ungrouped clubs or not.
always_miscellaneous(groups, ungrouped_clubs) ==
    Append(groups, [group_name |-> "Miscellaneous",
                    clubs |-> ungrouped_clubs,
                    similarity_score |-> Rat(1, 2)])

\* The groups with the Miscellaneous group of the ungrouped clubs, if any.
with_miscellaneous(groups, ungrouped_clubs) ==
    IF ungrouped_clubs # <<>>
    THEN Append(groups, [group_name |-> "Miscellaneous",
                         clubs |-> ungrouped_clubs,
                         similarity_score |-> Rat(1, 2)])
    ELSE groups

\* The final groups, given the predefined groups.
final_groups(club_list, predefined) ==
    with_miscellaneous(predefined,
        SelectSeq(club_list, LAMBDA club :
            club.id \notin grouped_club_ids(predefined)))

\* group_clubs.  The groups of _create_ml_groups are computed and dropped,
\* and every failure inside it is caught there.
group_clubs(club_list) ==
    IF club_list = <<>> THEN <<>>
    ELSE final_groups(club_list, _create_predefined_groups(club_list))

\* The first group of that name, or None.
RECURSIVE first_named(_, _, _)
first_named(groups, group_name, g) ==
    IF g > Len(groups) THEN None
    ELSE IF groups[g].group_name = group_name
    THEN [type |-> "ClubGroup", group |-> groups[g]]
    ELSE first_named(groups, group_name, g + 1)

get_group_by_name(club_list, group_name) ==
    first_named(group_clubs(club_list), group_name, 1)

(***************************************************************************)
(* evaluation_service.py: get_group_rankings                               *)
(***************************************************************************)
\* The ClubRanking of a club of a group, before the sort.
group_ranking(club, metrics, group_name) ==
    [type |-> "ClubRanking", rank |-> 0, club |-> club, metrics |-> metrics,
     overall_score |-> metrics.overall_score, group_name |-> group_name]

ranking_or_raise(club, metrics, group_name) ==
    IF IsRaise(metrics) THEN metrics
    ELSE Ok(group_ranking(club, metrics, group_name))

\* for club in group.clubs: the rankings appended, or the exception of
\* calculate_club_metrics.
RECURSIVE group_rankings_from(_, _, _, _, _, _, _)
group_rankings_from(group_clubs_list, evts, metrics, activities, votes, group_name, i) ==
    IF i > Len(group_clubs_list) THEN Ok(<<>>)
    ELSE Cons(ranking_or_raise(group_clubs_list[i],
                  calculate_club_metrics(evts, metrics, activities, votes,
                                         group_clubs_list[i].id),
                  group_name),
              group_rankings_from(group_clubs_list, evts, metrics, activities,
                                  votes, group_name, i + 1))

\* The rankings sorted and ranked, or the exception.
ranked_or_raise(rankings) ==
    IF IsRaise(rankings) THEN rankings
    ELSE [type |-> "list", items |-> AssignRanks(SortDescending(rankings.v))]

\* get_group_rankings, group being what get_group_by_name returned.
rankings_of_group(group, evts, metrics, activities, votes, group_name) ==
    IF group = None THEN [type |-> "list", items |-> <<>>]
    ELSE ranked_or_raise(group_rankings_from(group.group.clubs, evts, metrics,
                             activities, votes, group_name, 1))

get_group_rankings(club_list, evts, metrics, activities, votes, group_name) ==
    rankings_of_group(get_group_by_name(club_list, group_name), evts, metrics,
                      activities, votes, group_name)

(***************************************************************************)
(* The inputs of the chat analyzer.                                        *)
(***************************************************************************)
DayStrs == {<<"0">>, <<"1">>, <<"2", "9">>, <<"3", "1">>, <<"3", "2">>}

MonthStrs == {<<"0">>, <<"2">>, <<"0", "4">>, <<"1", "2">>, <<"1", "3">>}

YearStrs == {<<"2", "4">>, <<"2", "3">>, <<"1", "2", "3">>,
             <<"2", "0", "2", "3">>, <<"0", "0", "0", "0">>}

TimeStrs == {<<"9", ":", "0", "5", " ">>, <<"1", "0", ":", "3", "0", " ", "p", "m">>}

SenderStrs == {<<"A", "n", "u">>, <<"A", "n", "u", " ">>, <<"R", "a", "j">>}

\* "Workshop event": two event keywords.
BodyEvent == <<"W","o","r","k","s","h","o","p"," ","e","v","e","n","t">>

\* "joint show"
BodyJoint == <<"j","o","i","n","t"," ","s","h","o","w">>

\* "ok"
BodyPlain == <<"o","k">>

\* "any help?"
BodyAsk == <<"a","n","y"," ","h","e","l","p","?">>

\* "Thanks "
BodyThanks == <<"T","h","a","n","k","s"," ">>

BodyStrs == {BodyEvent, BodyJoint, BodyPlain, BodyAsk, BodyThanks}

\* A line the pattern does not match (a blank line, a continuation line, a
\* system notice): no groups.
Unmatched ==
    [match |-> FALSE, dd |-> <<>>, mm |-> <<>>, yy |-> <<>>, time |-> <<>>,
     sender |-> <<>>, body |-> <<>>]

Lines ==
    {Unmatched} \cup
    [match : {TRUE}, dd : DayStrs, mm : MonthStrs, yy : YearStrs,
     time : TimeStrs, sender : SenderStrs, body : BodyStrs]

Line(dd, mm, yy, sender, body) ==
    [match |-> TRUE, dd |-> dd, mm |-> mm, yy |-> yy,
     time |-> <<"9", ":", "0", "5", " ">>, sender |-> sender, body |-> body]

\* The lines the chat logs of the model are made of: an unmatched line, a
\* line dated 31/02, and three well-formed lines.
LogLines ==
    { Unmatched,
      Line(<<"3", "1">>, <<"2">>, <<"2", "4">>, <<"R", "a", "j">>, BodyEvent),
      Line(<<"1">>, <<"1", "2">>, <<"2", "3">>, <<"A", "n", "u">>, BodyEvent),
      Line(<<"2", "9">>, <<"2">>, <<"2", "4">>, <<"A", "n", "u", " ">>, BodyAsk),
      Line(<<"1">>, <<"0", "4">>, <<"2", "0", "2", "3">>, <<"R", "a", "j">>, BodyPlain),
      [Line(<<"1">>, <<"0", "4">>, <<"2", "0", "2", "3">>, <<"R", "a", "j">>,
            BodyPlain)
          EXCEPT !.time = <<"1", "0", ":", "3", "0", " ", "p", "m">>] }

Logs == UNION {[1..n -> LogLines] : n \in 0..MaxLines}

Missing == [exists |-> FALSE, readable |-> FALSE, lines |-> <<>>]

Unreadable == [exists |-> TRUE, readable |-> FALSE, lines |-> <<>>]

File(lines) == [exists |-> TRUE, readable |-> TRUE, lines |-> lines]

Files == {Missing, Unreadable} \cup {File(l) : l \in Logs}

\* A line of April 2023, of the day, time, sender and body given.
ChatLine(dd, time, sender, body) ==
    [match |-> TRUE, dd |-> dd, mm |-> <<"0", "4">>,
     yy |-> <<"2", "0", "2", "3">>, time |-> time, sender |-> sender,
     body |-> body]

\* The lines of the conversations: plain messages of two senders on two
\* days at 9:05 and at 10:30 pm, and three questions.
ConversationLines ==
    {ChatLine(dd, time, sender, BodyPlain) :
        dd \in {<<"1">>, <<"2">>}, time \in TimeStrs,
        sender \in {<<"A", "n", "u">>, <<"R", "a", "j">>}}
    \cup {ChatLine(<<"1">>, <<"9", ":", "0", "5", " ">>, <<"A", "n", "u">>, BodyAsk),
          ChatLine(<<"2">>, <<"9", ":", "0", "5", " ">>, <<"A", "n", "u">>, BodyAsk),
          ChatLine(<<"1">>, <<"9", ":", "0", "5", " ">>, <<"R", "a", "j">>, BodyAsk)}

\* n plain messages of Anu on day 1 at 9:05.
Fillers(n) ==
    [i \in 1..n |-> ChatLine(<<"1">>, <<"9", ":", "0", "5", " ">>,
                             <<"A", "n", "u">>, BodyPlain)]

\* The logs whose messages _analyze_response_patterns is called with: at
\* most one line, then no filler, 4 or 5 of them, then at most MaxTail
\* lines.
Conversations ==
    {head \o Fillers(n) \o tail :
        head \in {<<>>} \cup {<<l>> : l \in ConversationLines},
        n \in {0, 4, 5},
        tail \in UNION {[1..k -> ConversationLines] : k \in 0..MaxTail}}

\* The counts _calculate_engagement_score is called with.
MessageCounts == {0, 1, 7, 40, 100, 250}

SenderCounts == {0, 1, 10, 20, 45}

(***************************************************************************)
(* SpecChat: the calls of the chat analyzer on a line, a file, the counts. *)
(***************************************************************************)
\* The caller takes the result; the next call can be made.
Return ==
    /\ call.op # "none"
    /\ call' = NoCall
    /\ UNCHANGED state

ParseLine ==
    /\ call.op = "none"
    /\ \E line \in Lines :
          call' = [op |-> "parse_whatsapp_message", arg |-> line,
                   ret |-> parse_whatsapp_message(line)]
    /\ UNCHANGED state

AnalyzeChatFile ==
    /\ call.op = "none"
    /\ \E file \in Files :
          call' = [op |-> "analyze_chat_file", arg |-> file,
                   ret |-> analyze_chat_file(file)]
    /\ UNCHANGED state

CalculateEngagementScore ==
    /\ call.op = "none"
    /\ \E total_lines \in MessageCounts, total_messages \in MessageCounts,
          unique_senders \in SenderCounts, event_messages \in MessageCounts,
          help_messages \in {0, 7}, engagement_messages \in {0, 40} :
          /\ call' = [op |-> "_calculate_engagement_score",
                      arg |-> [total_messages |-> total_messages,
                               unique_senders |-> unique_senders,
                               event_messages |-> event_messages,
                               help_messages |-> help_messages,
                               engagement_messages |-> engagement_messages,
                               total_lines |-> total_lines],
                      ret |-> _calculate_engagement_score(total_messages,
                                  unique_senders, event_messages, help_messages,
                                  engagement_messages, total_lines)]
    /\ UNCHANGED state

\* _analyze_response_patterns on the messages parsed from a log.
AnalyzeResponsePatterns ==
    /\ call.op = "none"
    /\ \E lines \in Conversations :
          call' = [op |-> "_analyze_response_patterns",
                   arg |-> [i \in 1..Len(lines) |->
                               parse_whatsapp_message(lines[i])],
                   ret |-> _analyze_response_patterns(
                               [i \in 1..Len(lines) |->
                                   parse_whatsapp_message(lines[i])])]
    /\ UNCHANGED state

NoChatDir == [f \in ChatFileNames |-> Missing]

\* The fields of the evaluators before any of them is constructed.
NoEvaluator ==
    /\ social_media_data = <<>>
    /\ whatsapp_data = <<>>
    /\ clubs_data = <<>>

\* No pipeline has run.
NoPipeline ==
    /\ disk = <<>>
    /\ runs = <<>>

NoRankingService ==
    /\ clubs = <<>>
    /\ events = <<>>
    /\ social_media_metrics = <<>>
    /\ whatsapp_activity = <<>>
    /\ voting_data = <<>>

InitChat ==
    /\ call = NoCall
    /\ writer = None
    /\ service = "WhatsAppChatAnalyzer"
    /\ chat_dir = NoChatDir
    /\ NoEvaluator
    /\ NoRankingService
    /\ NoPipeline

NextChat ==
    \/ ParseLine
    \/ AnalyzeChatFile
    \/ CalculateEngagementScore
    \/ AnalyzeResponsePatterns
    \/ Return

SpecChat == InitChat /\ [][NextChat]_vars

(***************************************************************************)
(* SpecChatDir: analyze_all_chats over the chat directory.                 *)
(***************************************************************************)
\* What a chat file of the directory may be: absent, unreadable, a log with
\* no message, a log with messages.
DirFiles ==
    { Missing, Unreadable,
      File(<<Unmatched>>),
      File(<<Line(<<"1">>, <<"1", "2">>, <<"2", "3">>, <<"A", "n", "u">>, BodyEvent),
             Unmatched,
             Line(<<"1">>, <<"0", "4">>, <<"2", "0", "2", "3">>, <<"R", "a", "j">>, BodyPlain)>>) }

AnalyzeAllChats ==
    /\ call.op = "none"
    /\ call' = [op |-> "analyze_all_chats", arg |-> chat_dir,
                ret |-> analyze_all_chats(chat_dir)]
    /\ UNCHANGED state

InitChatDir ==
    /\ call = NoCall
    /\ writer = None
    /\ service = "WhatsAppChatAnalyzer"
    /\ chat_dir \in [ChatFileNames -> DirFiles]
    /\ NoEvaluator
    /\ NoRankingService
    /\ NoPipeline

NextChatDir == AnalyzeAllChats \/ Return

SpecChatDir == InitChatDir /\ [][NextChatDir]_vars

(***************************************************************************)
(* The inputs of the evaluators.                                           *)
(***************************************************************************)
Pad(n) == [i \in 1..n |-> "."]

\* "hi"
BioShort == <<"h", "i">>

\* "Official club" and 40 more characters
BioOfficial ==
    <<"O", "f", "f", "i", "c", "i", "a", "l", " ", "c", "l", "u", "b">> \o Pad(40)

\* 101 characters without "N/A"
AboutLong == Pad(101)

\* "N/A" and 100 more characters
AboutUnavailable == <<"N", "/", "A">> \o Pad(100)

\* The follower values _parse_number is called with: "1,234", "N/A", "0",
\* "300", "10,000,000", "inf", "1e400", "-1,000", "", "abc", "12.5", "1N/A",
\* "nan", " 42 ", the numbers 10000000, -1000 and 0, and null.
FollowerValues ==
    { JStr(<<"1", ",", "2", "3", "4">>),
      JStr(<<"N", "/", "A">>),
      JStr(<<"0">>),
      JStr(<<"3", "0", "0">>),
      JStr(<<"1", "0", ",", "0", "0", "0", ",", "0", "0", "0">>),
      JStr(<<"i", "n", "f">>),
      JStr(<<"1", "e", "4", "0", "0">>),
      JStr(<<"-", "1", ",", "0", "0", "0">>),
      JStr(<<>>),
      JStr(<<"a", "b", "c">>),
      JStr(<<"1", "2", ".", "5">>),
      JStr(<<"1", "N", "/", "A">>),
      JStr(<<"n", "a", "n">>),
      JStr(<<" ", "4", "2", " ">>),
      JInt(10000000), JInt(-1000), JInt(0), None }

Absent == [type |-> "absent"]

\* The dict of the chosen entries: a key whose choice is Absent is no key.
DictOf(choice) == [k \in {x \in DOMAIN choice : choice[x] # Absent} |-> choice[k]]

\* The 'social_media' value of a club of the scraped snapshot.
SocialMediaChoices ==
    { \* a typical club: both platforms, "1,234" and "300" followers
      [instagram |-> [followers |-> JStr(<<"1", ",", "2", "3", "4">>),
                      bio |-> BioOfficial],
       linkedin  |-> [followers |-> JStr(<<"3", "0", "0">>),
                      about |-> AboutLong]],
      \* 10 million followers
      [instagram |-> [followers |-> JInt(10000000), bio |-> BioShort]],
      \* a negative follower value
      [instagram |-> [followers |-> JStr(<<"-", "1", ",", "0", "0", "0">>),
                      bio |-> BioShort]],
      \* followers "inf"
      [linkedin |-> [followers |-> JStr(<<"i", "n", "f">>),
                     about |-> AboutLong]],
      \* nothing scraped: followers "N/A", about "N/A..."
      [linkedin |-> [followers |-> JStr(<<"N", "/", "A">>),
                     about |-> AboutUnavailable]] }

\* The chat analysis record of a club in whatsapp_analysis.json.
ChatAnalysisChoices ==
    { \* an active group
      [total_messages |-> 400, unique_senders |-> 30,
       content_analysis |-> [event_related |-> 40, help_requests |-> 10,
                             collaboration |-> 5, positive_engagement |-> 80],
       activity_analysis |-> [monthly |-> [m \in {"2024-01", "2024-02"} |-> 200],
                              hourly |-> <<>>],
       response_patterns |-> [response_rate_percentage |-> RInt(50)],
       engagement_score |-> Rat(15, 2)],
      \* the record of a log without messages
      [total_messages |-> 0, unique_senders |-> 0, activity_analysis |-> <<>>,
       engagement_score |-> RInt(0)],
      \* a stored engagement score far over the scale, nothing else
      [engagement_score |-> RInt(1000)],
      \* negative stored values
      [total_messages |-> 50, unique_senders |-> 5,
       content_analysis |-> [event_related |-> -20],
       response_patterns |-> [response_rate_percentage |-> RInt(-50)],
       engagement_score |-> RInt(-5)] }

\* The club keys of the snapshot and of the chat analysis.
EvaluatorKeys == {"club_1", "club_2"}

\* clubs.json as loaded by _load_clubs_data: absent, or three clubs.
ClubsDataChoices ==
    { <<>>,
      <<[id |-> 1, name |-> "SNUC Coding Club"],
        [id |-> 2, name |-> "Potential Robotics Club"],
        [id |-> 3, name |-> "SSN-SNUC MUN"]>> }

\* The category, the keywords and the activities of the clubs: two technical
\* clubs and a debating club.
ClubProfile(id) ==
    CASE id = 1 -> [category |-> "technical",
                    keywords |-> <<<<"C", "o", "d", "i", "n", "g">>>>,
                    activities |-> <<<<"H", "a", "c", "k", "a", "t", "h", "o", "n", "s">>>>]
      [] id = 2 -> [category |-> "technical",
                    keywords |-> <<<<"R", "o", "b", "o", "t", "i", "c", "s">>>>,
                    activities |-> <<>>]
      [] OTHER  -> [category |-> "debate_discussion",
                    keywords |-> <<<<"M", "U", "N">>>>,
                    activities |-> <<<<"D", "e", "b", "a", "t", "e", "s">>>>]

Club(id, name) ==
    [id |-> id, name |-> name, member_count |-> 50] @@ ClubProfile(id)

\* ClubService.clubs: no club loaded, or the clubs in the order of clubs.json.
ClubLists ==
    { <<>>,
      <<Club(1, "SNUC Coding Club"), Club(2, "Potential Robotics Club"),
        Club(3, "SSN-SNUC MUN")>>,
      <<Club(3, "SSN-SNUC MUN"), Club(1, "SNUC Coding Club"),
        Club(2, "Potential Robotics Club")>>,
      <<Club(2, "Potential Robotics Club"), Club(1, "SNUC Coding Club")>> }

\* The elements of pool at the places I, in the order of pool.
RECURSIVE Pick(_, _)
Pick(pool, I) ==
    IF pool = <<>> THEN <<>>
    ELSE LET rest == Pick(Tail(pool), {i - 1 : i \in I \ {1}})
         IN  IF 1 \in I THEN <<pool[1]>> \o rest ELSE rest

SubLists(pool) == {Pick(pool, I) : I \in SUBSET (1..Len(pool))}

EventPool ==
    << [id |-> 1, club_id |-> 1, participants |-> 100, duration_hours |-> 4,
        impact_score |-> Rat(17, 2), collaboration_clubs |-> <<2>>],
       [id |-> 2, club_id |-> 2, participants |-> 1000, duration_hours |-> 24,
        impact_score |-> RInt(100), collaboration_clubs |-> <<>>],
       [id |-> 3, club_id |-> 1, participants |-> 20, duration_hours |-> 2,
        impact_score |-> RInt(-5), collaboration_clubs |-> <<>>] >>

MetricPool ==
    << [club_id |-> 1, platform |-> "instagram", followers |-> 1234,
        posts_last_month |-> 12, engagement_rate |-> Rat(9, 2),
        collaboration_posts |-> 3],
       [club_id |-> 2, platform |-> "linkedin", followers |-> 10000000,
        posts_last_month |-> 100, engagement_rate |-> RInt(50),
        collaboration_posts |-> 9],
       [club_id |-> 3, platform |-> "instagram", followers |-> 0,
        posts_last_month |-> 0, engagement_rate |-> RInt(-2),
        collaboration_posts |-> 0] >>

ActivityPool ==
    << [club_id |-> 1, month |-> "2024-01", total_messages |-> 200,
        collaboration_messages |-> 30, engagement_score |-> Rat(15, 2)],
       [club_id |-> 2, month |-> "2024-01", total_messages |-> 900,
        collaboration_messages |-> 100, engagement_score |-> RInt(12)] >>

\* voting_data.json as loaded: absent, without vote_summary, a summary
\* without categories, a summary of 100 votes, a summary whose total is 0, a summary with a negative count.
VotingChoices ==
    { <<>>,
      [votes |-> <<>>],
      [vote_summary |-> [total_votes |-> 0]],
      [vote_summary |->
          [total_votes |-> 100,
           categories |-> [best_club   |-> [c \in {"1", "2"} |-> IF c = "1" THEN 30 ELSE 2],
                           most_active |-> [c \in {"1", "3"} |-> IF c = "1" THEN 5 ELSE 60]]]],
      [vote_summary |->
          [total_votes |-> 0,
           categories |-> [best_club |-> [c \in {"1"} |-> 0]]]],
      [vote_summary |->
          [total_votes |-> 10,
           categories |-> [best_club |-> [c \in {"2"} |-> -4]]]] }

\* The club ids the calls are made with.
CallClubIds == {1, 2, 3}

\* The orders in which a set can be iterated.
Orders(S) ==
    {s \in [1..Cardinality(S) -> S] : \A i, j \in DOMAIN s : s[i] = s[j] => i = j}

(***************************************************************************)
(* SpecScore: the calls of the two evaluators on their loaded data.        *)
(***************************************************************************)
ParseNumber ==
    /\ call.op = "none"
    /\ service = "ComprehensiveClubEvaluator"
    /\ \E value \in FollowerValues :
          call' = [op |-> "_parse_number", arg |-> value,
                   ret |-> _parse_number(value)]
    /\ UNCHANGED state

EvaluateClub ==
    /\ call.op = "none"
    /\ service = "ComprehensiveClubEvaluator"
    /\ \E club_id \in CallClubIds :
          call' = [op |-> "evaluate_club", arg |-> club_id,
                   ret |-> evaluate_club(social_media_data, whatsapp_data,
                                         clubs_data, club_id)]
    /\ UNCHANGED state

EvaluateAllClubs ==
    /\ call.op = "none"
    /\ service = "ComprehensiveClubEvaluator"
    /\ \E order \in Orders(all_club_ids(social_media_data, whatsapp_data,
                                        clubs_data)) :
          call' = [op |-> "evaluate_all_clubs", arg |-> order,
                   ret |-> evaluate_all_clubs(social_media_data, whatsapp_data,
                                              clubs_data, order)]
    /\ UNCHANGED state

CalculateClubMetrics ==
    /\ call.op = "none"
    /\ service = "ClubEvaluationService"
    /\ \E club_id \in CallClubIds :
          call' = [op |-> "calculate_club_metrics", arg |-> club_id,
                   ret |-> calculate_club_metrics(events, social_media_metrics,
                               whatsapp_activity, voting_data, club_id)]
    /\ UNCHANGED state

GetOverallRankings ==
    /\ call.op = "none"
    /\ service = "ClubEvaluationService"
    /\ call' = [op |-> "get_overall_rankings", arg |-> None,
                ret |-> get_overall_rankings(clubs, events, social_media_metrics,
                            whatsapp_activity, voting_data)]
    /\ UNCHANGED state

\* The group names asked for: groups with members, a group without, the
\* catch-all group and a name that is no group's.
GroupNames ==
    {"Technical & Innovation", "Leadership & Communication", "Performing Arts",
     "Miscellaneous", "Sports"}

GetGroupRankings ==
    /\ call.op = "none"
    /\ service = "ClubEvaluationService"
    /\ \E group_name \in GroupNames :
          call' = [op |-> "get_group_rankings", arg |-> group_name,
                   ret |-> get_group_rankings(clubs, events,
                               social_media_metrics, whatsapp_activity,
                               voting_data, group_name)]
    /\ UNCHANGED state

\* ComprehensiveClubEvaluator.__init__ has loaded the three data sources.
InitEvaluator ==
    /\ service = "ComprehensiveClubEvaluator"
    /\ \E choice \in [EvaluatorKeys -> SocialMediaChoices \cup {Absent}] :
          social_media_data =
              [k \in DOMAIN DictOf(choice) |->
                  [club_id |-> key_club_id(k), social_media |-> choice[k]]]
    /\ \E choice \in [EvaluatorKeys -> ChatAnalysisChoices \cup {Absent}] :
          whatsapp_data = DictOf(choice)
    /\ clubs_data \in ClubsDataChoices
    /\ NoRankingService

\* ClubEvaluationService.__init__ has loaded the clubs and the four sources.
InitRankingService ==
    /\ service = "ClubEvaluationService"
    /\ clubs \in ClubLists
    /\ events \in SubLists(EventPool)
    /\ social_media_metrics \in SubLists(MetricPool)
    /\ whatsapp_activity \in SubLists(ActivityPool)
    /\ voting_data \in VotingChoices
    /\ NoEvaluator

InitScore ==
    /\ call = NoCall
    /\ writer = None
    /\ chat_dir = NoChatDir
    /\ NoPipeline
    /\ (InitEvaluator \/ InitRankingService)

NextScore ==
    \/ ParseNumber
    \/ EvaluateClub
    \/ EvaluateAllClubs
    \/ CalculateClubMetrics
    \/ GetOverallRankings
    \/ GetGroupRankings
    \/ Return

SpecScore == InitScore /\ [][NextScore]_vars

(***************************************************************************)
(* SpecPipe: the ranking pipeline, run again and again on the same input   *)
(* files: integrate_all_data, then the construction of the services and    *)
(* get_overall_rankings.                                                   *)
(***************************************************************************)
Entry(key, data) == [key |-> key, data |-> data]

\* "300"
Followers300 == JStr(<<"3", "0", "0">>)

\* Scrapper/social_media_data.json: absent; an Instagram club and a
\* LinkedIn club; one club on both platforms; a club whose followers are
\* "N/A"; a club whose followers are "N/A" in front of a club with "300";
\* a club with "300" in front of a club whose followers are the number 300.
ScrapedFiles ==
    { NoFile,
      JsonFile(<<Entry("club_1", [club_id |-> 1, social_media |->
                     [instagram |-> [followers |-> Followers300]]]),
                 Entry("club_2", [club_id |-> 2, social_media |->
                     [linkedin |-> [followers |-> Followers300]]])>>),
      JsonFile(<<Entry("club_1", [club_id |-> 1, social_media |->
                     [instagram |-> [followers |->
                                        JStr(<<"1", ",", "2", "3", "4">>)],
                      linkedin |-> [followers |-> Followers300]]])>>),
      JsonFile(<<Entry("club_1", [club_id |-> 1, social_media |->
                     [linkedin |-> [followers |-> JStr(<<"N", "/", "A">>)]]])>>),
      JsonFile(<<Entry("club_1", [club_id |-> 1, social_media |->
                     [linkedin |-> [followers |-> JStr(<<"N", "/", "A">>)]]]),
                 Entry("club_2", [club_id |-> 2, social_media |->
                     [linkedin |-> [followers |-> Followers300]]])>>),
      JsonFile(<<Entry("club_1", [club_id |-> 1, social_media |->
                     [linkedin |-> [followers |-> Followers300]]]),
                 Entry("club_2", [club_id |-> 2, social_media |->
                     [linkedin |-> [followers |-> JInt(300)]]])>>) }

\* data/whatsapp_analysis.json: absent, or a club with two months of
\* messages and a club without messages.
AnalysisFiles ==
    { NoFile,
      JsonFile(<<Entry("club_1",
                     [club_id |-> 1, total_messages |-> 400,
                      unique_senders |-> 30,
                      content_analysis |->
                          [event_related |-> 40, help_requests |-> 10,
                           collaboration |-> 5],
                      activity_analysis |->
                          [monthly |-> <<[month |-> "2024-01", count |-> 250],
                                         [month |-> "2024-02", count |-> 150]>>],
                      engagement_score |-> Rat(15, 2)]),
                 Entry("club_2",
                     [club_id |-> 2, total_messages |-> 0,
                      unique_senders |-> 0,
                      engagement_score |-> RInt(0)])>>) }

\* data/clubs.json: absent, the club lists, or three clubs of which the first
\* has 500 members.
ClubsFiles ==
    {NoFile} \cup {JsonFile([clubs |-> c]) : c \in ClubLists \ {<<>>}}
        \cup {JsonFile([clubs |->
                  <<[Club(1, "SNUC Coding Club") EXCEPT !.member_count = 500],
                    Club(2, "Potential Robotics Club"),
                    Club(3, "SSN-SNUC MUN")>>])}

EventsFiles == {NoFile, JsonFile([events |-> EventPool])}

VotingFiles ==
    { NoFile,
      JsonFile([vote_summary |->
          [total_votes |-> 100,
           categories |-> [best_club |-> [c \in {"1", "2"} |->
                                             IF c = "1" THEN 30 ELSE 2]]]]) }

\* The values np.random.randint(0, 4) and np.random.randint(0, 2) can
\* return for one club; 0 stands for the call that is not made.
Draws(club_data) ==
    [instagram : IF "instagram" \in DOMAIN Get(club_data, "social_media", <<>>)
                 THEN 0..3 ELSE {0},
     linkedin  : IF "linkedin" \in DOMAIN Get(club_data, "social_media", <<>>)
                 THEN 0..1 ELSE {0}]

\* The values the random generator can return during one
\* get_social_media_metrics.
AllDraws(social_media_file) ==
    IF social_media_file.type = "missing" THEN {<<>>}
    ELSE {draws \in [1..Len(social_media_file.v) ->
                        [instagram : 0..3, linkedin : 0..1]] :
             \A i \in 1..Len(social_media_file.v) :
                 draws[i] \in Draws(social_media_file.v[i].data)}

\* The last two pipeline runs.
LastTwo(s) == IF Len(s) > 2 THEN Tail(s) ELSE s

IntegrateAllData ==
    /\ call.op = "none"
    /\ service' = "DataIntegrationService"
    /\ \E draws \in AllDraws(disk.social_media_data) :
          disk' = integrate_all_data(disk, draws)
    /\ call' = [op |-> "integrate_all_data", arg |-> None,
                ret |-> [social_media_metrics |-> "social_media_metrics.json",
                         whatsapp_activity |-> "whatsapp_activity.json"]]
    /\ UNCHANGED <<chat_dir, social_media_data, whatsapp_data, clubs_data,
                   clubs, events, social_media_metrics, whatsapp_activity,
                   voting_data, runs, writer>>

\* ClubEvaluationService() loads the disk that integrate_all_data left,
\* and get_overall_rankings ranks the clubs.
RankIntegratedData ==
    /\ call.op = "integrate_all_data"
    /\ service' = "ClubEvaluationService"
    /\ clubs' = _load_clubs(disk.clubs)
    /\ events' = _load_events(disk.events)
    /\ social_media_metrics' =
           _load_social_media_metrics(disk.social_media_metrics)
    /\ whatsapp_activity' = _load_whatsapp_activity(disk.whatsapp_activity)
    /\ voting_data' = _load_voting_data(disk.voting_data)
    /\ \E ranking \in {get_overall_rankings(clubs', events',
                           social_media_metrics', whatsapp_activity',
                           voting_data')} :
          /\ call' = [op |-> "get_overall_rankings", arg |-> None,
                      ret |-> ranking]
          /\ runs' = LastTwo(Append(runs,
                         [social_media_metrics |->
                              disk.social_media_metrics.v.social_media_metrics,
                          ranking |-> ranking]))
    /\ UNCHANGED <<chat_dir, social_media_data, whatsapp_data, clubs_data,
                   disk, writer>>

InitPipe ==
    /\ call = NoCall
    /\ writer = None
    /\ service = "DataIntegrationService"
    /\ chat_dir = NoChatDir
    /\ NoEvaluator
    /\ NoRankingService
    /\ \E scraped \in ScrapedFiles, analysis \in AnalysisFiles,
          clubs_file \in ClubsFiles, events_file \in EventsFiles,
          voting_file \in VotingFiles :
          disk = [social_media_data |-> scraped,
                   whatsapp_analysis |-> analysis,
                   clubs |-> clubs_file,
                   events |-> events_file,
                   voting_data |-> voting_file,
                   social_media_metrics |-> NoFile,
                   whatsapp_activity |-> NoFile]
    /\ runs = <<>>

NextPipe == IntegrateAllData \/ RankIntegratedData \/ Return

SpecPipe == InitPipe /\ [][NextPipe]_vars

(***************************************************************************)
(* Claims on the chat analyzer.                                            *)
(***************************************************************************)
LineDay(line) == DigitsToInt(line.dd)

LineMonth(line) == DigitsToInt(line.mm)

LineYear(line) ==
    IF Len(line.yy) = 2 THEN 2000 + DigitsToInt(line.yy) ELSE DigitsToInt(line.yy)

\* The day or the month of a matched line is not one of the calendar.
OutOfCalendar(line) ==
    \/ LineMonth(line) \notin 1..12
    \/ LineDay(line) < 1
    \/ LineDay(line) > DaysInMonth(LineYear(line), LineMonth(line))

\* A line that is a message: it matches and names a date that exists.
WellFormed(line) ==
    line.match /\ ~OutOfCalendar(line) /\ LineYear(line) >= 1

WellFormedAt(lines) == {i \in 1..Len(lines) : WellFormed(lines[i])}

Readable(file) == file.exists /\ file.readable

\* C1: parse_whatsapp_message returns a message record or None for every
\* line and never raises; a line that does not match, or whose day or month
\* is out of the calendar, yields None; analyze_chat_file drops such a line
\* and still parses the lines after it, so it counts exactly the well-formed
\* lines of the file.
C1_MalformedLineSkipped ==
    /\ call.op = "parse_whatsapp_message" =>
          /\ call.ret.type \in {"None", "message"}
          /\ (~call.arg.match \/ OutOfCalendar(call.arg)) => call.ret.type = "None"
          /\ WellFormed(call.arg) => call.ret.type = "message"
    /\ (call.op = "analyze_chat_file" /\ Readable(call.arg)) =>
          /\ "type" \notin DOMAIN call.ret
          /\ call.ret.total_messages = Cardinality(WellFormedAt(call.arg.lines))

\* A file was analysed in which a well-formed line follows a malformed one.
C1_Witness ==
    /\ call.op = "analyze_chat_file"
    /\ Readable(call.arg)
    /\ \E i, j \in 1..Len(call.arg.lines) :
          /\ i < j
          /\ call.arg.lines[i].match
          /\ OutOfCalendar(call.arg.lines[i])
          /\ WellFormed(call.arg.lines[j])
    /\ call.ret.total_messages >= 1

\* C2: for a chat log in which no line parses to a message (a log of zero
\* lines included), analyze_chat_file returns total_messages = 0,
\* unique_senders = 0 and engagement_score = 0.0.
C2_NoValidLineZeroMetrics ==
    (/\ call.op = "analyze_chat_file"
     /\ Readable(call.arg)
     /\ WellFormedAt(call.arg.lines) = {}) =>
        /\ call.ret.total_messages = 0
        /\ call.ret.unique_senders = 0
        /\ call.ret.engagement_score = RInt(0)

\* A log of several lines, none of them a message, was analysed.
C2_Witness ==
    /\ call.op = "analyze_chat_file"
    /\ Readable(call.arg)
    /\ Len(call.arg.lines) >= 2
    /\ WellFormedAt(call.arg.lines) = {}
    /\ \E i \in 1..Len(call.arg.lines) : call.arg.lines[i].match
    /\ call.ret.total_messages = 0

\* The record of a club in the result of analyze_all_chats has all counts 0.
ZeroRecord(items, key) ==
    /\ key \in DOMAIN items
    /\ "total_messages" \in DOMAIN items[key]
    /\ items[key].total_messages = 0
    /\ items[key].unique_senders = 0
    /\ items[key].engagement_score = RInt(0)

\* C3: for every club of the mapping whose chat file is missing or
\* unreadable, the result of analyze_all_chats holds a record of that club
\* with total_messages = 0, unique_senders = 0 and engagement_score = 0.0;
\* no error reaches the caller and the other clubs' records are produced.
C3_MissingChatZeroRecord ==
    call.op = "analyze_all_chats" =>
        /\ call.ret.type = "dict"
        /\ \A i \in 1..Len(club_mapping) :
              LET entry == club_mapping[i]
                  file  == call.arg[entry.file]
              IN  IF Readable(file)
                  THEN /\ club_key(entry.id) \in DOMAIN call.ret.items
                       /\ call.ret.items[club_key(entry.id)].total_messages
                              = Cardinality(WellFormedAt(file.lines))
                  ELSE ZeroRecord(call.ret.items, club_key(entry.id))

\* The sub-term x of the engagement score, capped at cap.
Capped(x, cap) == IF RLe(x, cap) THEN x ELSE cap

\* C6: for non-negative counts with total_messages <= total_lines the
\* engagement score is the sum of four sub-terms, each capped (density at
\* 3.0, participation at 2.0, content at 3.0, volume at 2.0), so no sub-term
\* contributes more than its cap, and the score lies in [0,10].
C6_EngagementScoreCappedSum ==
    (call.op = "_calculate_engagement_score"
        /\ call.arg.total_messages <= call.arg.total_lines) =>
        LET a == call.arg
            density == IF a.total_lines > 0
                       THEN Capped(Rat(10 * a.total_messages, a.total_lines), RInt(3))
                       ELSE RInt(0)
            participation == Capped(Rat(a.unique_senders, 20), RInt(2))
            content == IF a.total_messages > 0
                       THEN Capped(Rat(5 * (a.event_messages + a.help_messages
                                            + a.engagement_messages),
                                       a.total_messages), RInt(3))
                       ELSE RInt(0)
            volume == Capped(Rat(a.total_messages, 100), RInt(2))
        IN  /\ call.ret = RAdd(RAdd(density, participation), RAdd(content, volume))
            /\ RLe(RInt(0), call.ret)
            /\ RLe(call.ret, RInt(10))

\* The score of a log whose volume and participation are both over their
\* saturation thresholds was computed.
C6_Witness ==
    /\ call.op = "_calculate_engagement_score"
    /\ call.arg.total_messages = 250
    /\ call.arg.total_lines = 250
    /\ call.arg.unique_senders = 45
    /\ call.arg.event_messages = 0
    /\ RLt(call.ret, RInt(10))

(***************************************************************************)
(* Claims on the two evaluators.                                           *)
(***************************************************************************)
\* x is a score of the scale [0,10].
InScale(x) == RLe(RInt(0), x) /\ RLe(x, RInt(10))

EvaluatorSubScores(r) ==
    <<r.social_media_score, r.chat_engagement_score, r.combined_reach_score,
      r.community_activity_score, r.content_quality_score>>

ServiceSubScores(m) ==
    <<m.social_media_score, m.event_impact_score, m.community_engagement_score,
      m.collaboration_score, m.voting_score>>

\* C4: in ComprehensiveClubEvaluator, for every club and every content of
\* the loaded social-media and chat-analysis data (10 million followers,
\* negative followers, any stored engagement_score), each of the five
\* sub-scores and the overall score lies in [0,10].
C4_EvaluatorScoresInScale ==
    (call.op = "evaluate_club" /\ ~IsRaise(call.ret)) =>
        /\ \A i \in 1..5 : InScale(EvaluatorSubScores(call.ret)[i])
        /\ InScale(call.ret.overall_score)

\* C5: in ClubEvaluationService, for every club and every loaded set of
\* event, social-media, WhatsApp-activity and voting records, each of the
\* five sub-scores and the overall score lies in [0,10], whatever the
\* magnitude or sign of the record fields.
C5_ServiceScoresInScale ==
    (call.op = "calculate_club_metrics" /\ ~IsRaise(call.ret)) =>
        /\ \A i \in 1..5 : InScale(ServiceSubScores(call.ret)[i])
        /\ InScale(call.ret.overall_score)

\* s is a string of digits and thousands separators with at least one digit.
SeparatedDigits(s) ==
    /\ \A i \in 1..Len(s) : s[i] \in Digits \cup {","}
    /\ \E i \in 1..Len(s) : s[i] \in Digits

\* C7: _parse_number never raises and returns a non-negative integer for
\* every follower value: a digit string with thousands separators yields
\* the integer with the separators removed ("1,234" -> 1234), "N/A" yields
\* 0, and any other string with a non-numeric residue ("inf" and "1e400"
\* included) yields 0.
C7_ParseNumberTotal ==
    call.op = "_parse_number" =>
        /\ call.ret.type = "int"
        /\ call.ret.v >= 0
        /\ call.arg.type = "str" =>
              IF SeparatedDigits(call.arg.s)
              THEN call.ret.v =
                       DigitsToInt(SelectSeq(call.arg.s, LAMBDA c : c # ","))
              ELSE call.ret.v = 0

\* The weights w are not negative and sum to 1.
ConvexWeights(w) ==
    /\ \A k \in DOMAIN w : RLe(RInt(0), w[k])
    /\ DictSum(w) = RInt(1)

\* x lies between the smallest and the largest of the scores s.
Between(x, s) ==
    /\ \E i \in DOMAIN s : RLe(s[i], x)
    /\ \E i \in DOMAIN s : RLe(x, s[i])

WeightedSum(w, s) ==
    RAdd(RAdd(RAdd(RMul(w[1], s[1]), RMul(w[2], s[2])),
              RAdd(RMul(w[3], s[3]), RMul(w[4], s[4]))),
         RMul(w[5], s[5]))

EvaluatorConvex(r) ==
    /\ r.overall_score =
           WeightedSum(<<Rat(35, 100), Rat(25, 100), Rat(20, 100), Rat(15, 100),
                         Rat(5, 100)>>, EvaluatorSubScores(r))
    /\ Between(r.overall_score, EvaluatorSubScores(r))

ServiceConvex(m) ==
    /\ m.overall_score =
           WeightedSum(<<Rat(20, 100), Rat(30, 100), Rat(25, 100), Rat(15, 100),
                         Rat(10, 100)>>, ServiceSubScores(m))
    /\ Between(m.overall_score, ServiceSubScores(m))

\* C8: in both evaluators the weights are non-negative and sum to exactly
\* 1.0, and every overall score is the weighted sum of the club's five
\* sub-scores with those weights; hence it lies between the smallest and
\* the largest of the club's sub-scores.
C8_OverallIsConvexCombination ==
    /\ ConvexWeights(evaluator_weights)
    /\ ConvexWeights(service_weights)
    /\ (call.op = "evaluate_club" /\ ~IsRaise(call.ret)) =>
          EvaluatorConvex(call.ret)
    /\ (call.op = "evaluate_all_clubs" /\ ~IsRaise(call.ret)) =>
          \A i \in 1..Len(call.ret.items) : EvaluatorConvex(call.ret.items[i])
    /\ (call.op = "calculate_club_metrics" /\ ~IsRaise(call.ret)) =>
          ServiceConvex(call.ret)
    /\ (call.op = "get_overall_rankings" /\ ~IsRaise(call.ret)) =>
          \A i \in 1..Len(call.ret.items) :
              ServiceConvex(call.ret.items[i].metrics)

\* A club was evaluated whose overall score lies strictly between its
\* smallest and its largest sub-score.
C8_Witness ==
    /\ call.op = "evaluate_club"
    /\ ~IsRaise(call.ret)
    /\ \E i, j \in 1..5 :
          /\ RLt(EvaluatorSubScores(call.ret)[i], call.ret.overall_score)
          /\ RLt(call.ret.overall_score, EvaluatorSubScores(call.ret)[j])

\* C9: in the list returned by get_overall_rankings and by
\* evaluate_all_clubs the entry at position i (0-based) has rank i+1, so
\* the ranks are 1..n without gap or repeat, the overall scores do not
\* increase along the list, and of two clubs with distinct overall scores
\* the one with the higher score has the smaller rank.
C9_RanksFollowScores ==
    (call.op \in {"get_overall_rankings", "evaluate_all_clubs"}
        /\ ~IsRaise(call.ret)) =>
        LET items == call.ret.items
        IN  /\ \A i \in 1..Len(items) : items[i].rank = i
            /\ \A i \in 1..(Len(items) - 1) :
                  RLe(items[i + 1].overall_score, items[i].overall_score)
            /\ \A i, j \in 1..Len(items) :
                  RLt(items[j].overall_score, items[i].overall_score)
                      => items[i].rank < items[j].rank

\* Three clubs with three distinct overall scores were ranked, and the club
\* that comes first in the club list is not the one ranked first.
C9_Witness ==
    /\ call.op = "get_overall_rankings"
    /\ ~IsRaise(call.ret)
    /\ Len(call.ret.items) = 3
    /\ call.ret.items[1].club.id # clubs[1].id
    /\ RLt(call.ret.items[2].overall_score, call.ret.items[1].overall_score)
    /\ RLt(call.ret.items[3].overall_score, call.ret.items[2].overall_score)

RankingOrderDiffers ==
    /\ Len(runs) = 2
    /\ ~IsRaise(runs[1].ranking) /\ ~IsRaise(runs[2].ranking)
    /\ Len(runs[1].ranking.items) >= 2
    /\ runs[1].ranking.items[1].club.id # runs[2].ranking.items[1].club.id

(***************************************************************************)
(* SpecGroup: ClubGroupingService on the clubs it loaded.                  *)
(***************************************************************************)
\* Club.category: two categories of the group definitions and one of none.
GroupingCategories == {"technical", "performing_arts", "sports"}

\* Club.keywords: none, "Dance", or "Coding" and "Live Music".
GroupingKeywords ==
    { <<>>,
      <<<<"D", "a", "n", "c", "e">>>>,
      <<<<"C", "o", "d", "i", "n", "g">>,
        <<"L", "i", "v", "e", " ", "M", "u", "s", "i", "c">>>> }

\* Club.activities: none, or "Public Speaking".
GroupingActivities ==
    { <<>>,
      <<<<"P", "u", "b", "l", "i", "c", " ", "S", "p", "e", "a", "k", "i", "n", "g">>>> }

\* The clubs of that id.
GroupingClubs(id) ==
    {[id |-> id, name |-> "Club", member_count |-> 50, category |-> c,
      keywords |-> k, activities |-> a] :
        c \in GroupingCategories, k \in GroupingKeywords,
        a \in GroupingActivities}

\* ClubGroupingService.clubs: no club, one club, or two clubs in either
\* order of their ids.
GroupingClubLists ==
    {<<>>} \cup {<<c>> : c \in GroupingClubs(1)}
           \cup {<<c, d>> : c \in GroupingClubs(1), d \in GroupingClubs(2)}
           \cup {<<d, c>> : c \in GroupingClubs(1), d \in GroupingClubs(2)}

GroupClubs ==
    /\ call.op = "none"
    /\ call' = [op |-> "group_clubs", arg |-> None,
                ret |-> [type |-> "list", items |-> group_clubs(clubs)]]
    /\ UNCHANGED state

GetGroupByName ==
    /\ call.op = "none"
    /\ \E group_name \in GroupNames :
          call' = [op |-> "get_group_by_name", arg |-> group_name,
                   ret |-> get_group_by_name(clubs, group_name)]
    /\ UNCHANGED state

\* ClubGroupingService.__init__ has loaded the clubs.
InitGroup ==
    /\ call = NoCall
    /\ writer = None
    /\ service = "ClubGroupingService"
    /\ chat_dir = NoChatDir
    /\ clubs \in GroupingClubLists
    /\ events = <<>>
    /\ social_media_metrics = <<>>
    /\ whatsapp_activity = <<>>
    /\ voting_data = <<>>
    /\ NoEvaluator
    /\ NoPipeline

NextGroup ==
    \/ GroupClubs
    \/ GetGroupByName
    \/ Return

SpecGroup == InitGroup /\ [][NextGroup]_vars

(***************************************************************************)
(* SpecApi: the club queries of the HTTP layer on the clubs that           *)
(* ClubService loaded.                                                     *)
(***************************************************************************)
\* raise HTTPException(status_code=..., detail=...)
HTTPException(status_code, detail) ==
    [type |-> "raise", exc |-> "HTTPException", status_code |-> status_code,
     detail |-> detail]

\* ClubService.get_all_clubs
get_all_clubs(club_list) == club_list

\* ClubService.get_club_by_id: the first club of that id, or None.
RECURSIVE ClubService_get_club_by_id(_, _, _)
ClubService_get_club_by_id(club_list, club_id, i) ==
    IF i > Len(club_list) THEN None
    ELSE IF club_list[i].id = club_id THEN club_list[i]
    ELSE ClubService_get_club_by_id(club_list, club_id, i + 1)

\* The body of the try block of the route: the club, or the exception
\* raised for `not club`.
club_or_not_found(club) ==
    IF club = None THEN HTTPException(404, "Club not found") ELSE Ok(club)

\* except Exception as e: raise HTTPException(500, prefix + str(e)); the
\* exception caught stands for its str.  HTTPException is an Exception.
except_Exception_as_500(r, prefix) ==
    IF IsRaise(r) THEN HTTPException(500, <<prefix, r>>) ELSE r

\* GET /clubs
get_all_clubs_route(club_list) ==
    except_Exception_as_500(Ok(get_all_clubs(club_list)),
                            "Error fetching clubs: ")

\* GET /clubs/{club_id}
get_club_by_id(club_list, club_id) ==
    except_Exception_as_500(
        club_or_not_found(ClubService_get_club_by_id(club_list, club_id, 1)),
        "Error fetching club: ")

\* The ids asked for: the ids of the clubs and two of no club.
ClubIds == 0..3

GetAllClubs ==
    /\ call.op = "none"
    /\ call' = [op |-> "GET /clubs", arg |-> None,
                ret |-> get_all_clubs_route(clubs)]
    /\ UNCHANGED state

GetClubById ==
    /\ call.op = "none"
    /\ \E club_id \in ClubIds :
          call' = [op |-> "GET /clubs/{club_id}", arg |-> club_id,
                   ret |-> get_club_by_id(clubs, club_id)]
    /\ UNCHANGED state

\* ClubService.__init__ has loaded the clubs.
InitApi ==
    /\ call = NoCall
    /\ writer = None
    /\ service = "ClubService"
    /\ chat_dir = NoChatDir
    /\ clubs \in GroupingClubLists
    /\ events = <<>>
    /\ social_media_metrics = <<>>
    /\ whatsapp_activity = <<>>
    /\ voting_data = <<>>
    /\ NoEvaluator
    /\ NoPipeline

NextApi ==
    \/ GetAllClubs
    \/ GetClubById
    \/ Return

SpecApi == InitApi /\ [][NextApi]_vars

(***************************************************************************)
(* SpecSave: the writers of the JSON output files.  Each of them runs      *)
(*     with open(path, 'w', encoding='utf-8') as f:                        *)
(*         json.dump(data, f, indent=2, ensure_ascii=False)                *)
(* open(path, 'w') creates or truncates the file, json.dump writes the     *)
(* text piece by piece through the buffer of f, and leaving the with       *)
(* block flushes the buffer and closes f.  The process can be killed       *)
(* between any two of these steps.  A file is absent or a text, a text     *)
(* being the sequence of the pieces written; a document is the list of     *)
(* its elements.                                                           *)
(***************************************************************************)
TextFile(text) == [type |-> "text", text |-> text]

\* The pieces json.dump writes for a document.
json_dump(data) == <<"[">> \o data \o <<"]">>

\* json.load of a text: the document, or JSONDecodeError when the text is
\* not a whole document.
json_load(text) ==
    IF Len(text) >= 2 /\ text[1] = "[" /\ text[Len(text)] = "]"
          /\ \A i \in 2..(Len(text) - 1) : text[i] \notin {"[", "]"}
    THEN Ok(SubSeq(text, 2, Len(text) - 1))
    ELSE Raise("JSONDecodeError")

\* The output files and the method that writes each.
OutputFiles ==
    {"whatsapp_analysis.json", "comprehensive_evaluation.json",
     "social_media_metrics.json", "whatsapp_activity.json", "clubs.json"}

SaveMethod(path) ==
    CASE path = "whatsapp_analysis.json" -> "save_analysis_results"
      [] path = "comprehensive_evaluation.json" -> "save_evaluation_results"
      [] path = "social_media_metrics.json" -> "generate_social_media_metrics_file"
      [] path = "whatsapp_activity.json" -> "generate_whatsapp_activity_file"
      [] path = "clubs.json" -> "update_clubs_data_with_real_metrics"

\* The documents saved: one record, or two.
Documents == {<<"a">>, <<"a", "b">>}

\* update_clubs_data_with_real_metrics reads clubs.json first; when that
\* fails it returns None without writing.
CanStartSave(path) ==
    path = "clubs.json"
        => (disk[path].type = "text" /\ ~IsRaise(json_load(disk[path].text)))

\* The method is called and opens the file for writing; the file is now
\* empty.  previous remembers what the file held before.
OpenForWriting ==
    /\ call.op = "none"
    /\ writer = None
    /\ \E path \in OutputFiles, data \in Documents :
          IF CanStartSave(path)
          THEN /\ writer' = [path |-> path, data |-> data,
                             previous |-> disk[path],
                             buffer |-> json_dump(data)]
               /\ disk' = [disk EXCEPT ![path] = TextFile(<<>>)]
               /\ call' = call
          ELSE /\ call' = [op |-> SaveMethod(path), arg |-> data, ret |-> None]
               /\ UNCHANGED <<writer, disk>>
    /\ UNCHANGED <<service, chat_dir, social_media_data, whatsapp_data,
                   clubs_data, clubs, events, social_media_metrics,
                   whatsapp_activity, voting_data, runs>>

\* The buffer of f passes its first k pieces to the file.
FlushBuffer ==
    /\ writer # None
    /\ \E k \in 1..Len(writer.buffer) :
          /\ disk' = [disk EXCEPT ![writer.path] =
                         TextFile(@.text \o SubSeq(writer.buffer, 1, k))]
          /\ writer' = [writer EXCEPT !.buffer =
                            SubSeq(@, k + 1, Len(@))]
    /\ UNCHANGED <<call, service, chat_dir, social_media_data, whatsapp_data,
                   clubs_data, clubs, events, social_media_metrics,
                   whatsapp_activity, voting_data, runs>>

\* The with block is left: the rest of the buffer is written, f is closed
\* and the method returns the path.
CloseFile ==
    /\ writer # None
    /\ disk' = [disk EXCEPT ![writer.path] = TextFile(@.text \o writer.buffer)]
    /\ call' = [op |-> SaveMethod(writer.path),
                arg |-> [path |-> writer.path, data |-> writer.data,
                         previous |-> writer.previous],
                ret |-> Ok(writer.path)]
    /\ writer' = None
    /\ UNCHANGED <<service, chat_dir, social_media_data, whatsapp_data,
                   clubs_data, clubs, events, social_media_metrics,
                   whatsapp_activity, voting_data, runs>>

\* The process is killed during the save: what is in the buffer is lost.
Crash ==
    /\ writer # None
    /\ call' = [op |-> SaveMethod(writer.path),
                arg |-> [path |-> writer.path, data |-> writer.data,
                         previous |-> writer.previous],
                ret |-> [type |-> "killed"]]
    /\ writer' = None
    /\ UNCHANGED <<service, chat_dir, social_media_data, whatsapp_data,
                   clubs_data, clubs, events, social_media_metrics,
                   whatsapp_activity, voting_data, disk, runs>>

\* The data directory before a save: each output file is absent or holds a
\* document saved earlier.
InitSave ==
    /\ call = NoCall
    /\ writer = None
    /\ service = "writers"
    /\ chat_dir = NoChatDir
    /\ NoEvaluator
    /\ NoRankingService
    /\ runs = <<>>
    /\ disk \in [OutputFiles -> {NoFile, TextFile(json_dump(<<"a">>))}]

NextSave ==
    \/ OpenForWriting
    \/ FlushBuffer
    \/ CloseFile
    \/ Crash
    \/ Return

SpecSave == InitSave /\ [][NextSave]_vars

(***************************************************************************)
(* SpecLoad: ClubEvaluationService() on a data directory whose files are   *)
(* absent, unparsable or well-formed, and the calls of the service.        *)
(***************************************************************************)
\* One input file: absent, no JSON, or the JSON values given.
InputFiles(values) == {NoFile, CorruptFile} \cup {JsonFile(v) : v \in values}

\* The data directory; clubs.json can also be a JSON object without the
\* key clubs.
DataDirectories ==
    [clubs : InputFiles({[clubs |-> <<Club(3, "SSN-SNUC MUN"),
                                       Club(1, "SNUC Coding Club"),
                                       Club(2, "Potential Robotics Club")>>],
                         [teams |-> <<>>]}),
     events : InputFiles({[events |-> EventPool]}),
     social_media_metrics : InputFiles({[social_media_metrics |-> MetricPool]}),
     whatsapp_activity : InputFiles({[whatsapp_activity |-> ActivityPool]}),
     voting_data : InputFiles(VotingChoices \ {<<>>})]

\* ClubEvaluationService.__init__: ClubService() and the four loaders.
ConstructService ==
    /\ call.op = "none"
    /\ service = "none"
    /\ service' = "ClubEvaluationService"
    /\ clubs' = _load_clubs(disk.clubs)
    /\ events' = _load_events(disk.events)
    /\ social_media_metrics' =
           _load_social_media_metrics(disk.social_media_metrics)
    /\ whatsapp_activity' = _load_whatsapp_activity(disk.whatsapp_activity)
    /\ voting_data' = _load_voting_data(disk.voting_data)
    /\ call' = [op |-> "ClubEvaluationService", arg |-> None, ret |-> None]
    /\ UNCHANGED <<chat_dir, social_media_data, whatsapp_data, clubs_data,
                   disk, runs, writer>>

InitLoad ==
    /\ call = NoCall
    /\ writer = None
    /\ service = "none"
    /\ chat_dir = NoChatDir
    /\ NoEvaluator
    /\ NoRankingService
    /\ runs = <<>>
    /\ disk \in DataDirectories

NextLoad ==
    \/ ConstructService
    \/ CalculateClubMetrics
    \/ GetOverallRankings
    \/ Return

SpecLoad == InitLoad /\ [][NextLoad]_vars

(***************************************************************************)
(* The rankings of ClubEvaluationService: ties, completeness, defaults.    *)
(***************************************************************************)
\* The place of the club of that id in the list ClubService.clubs.
PlaceOf(club_list, id) == CHOOSE i \in 1..Len(club_list) : club_list[i].id = id

\* Items of equal overall score stand in the order of their clubs in
\* club_list.
TiesInInputOrder(items, club_list) ==
    \A i, j \in 1..Len(items) :
        (i < j /\ items[i].overall_score = items[j].overall_score)
            => PlaceOf(club_list, items[i].club.id)
                   < PlaceOf(club_list, items[j].club.id)

\* C11: in the lists returned by get_overall_rankings and get_group_rankings
\* clubs of exactly equal overall score stand in the relative order of the
\* club list, and a call leaves the loaded state as it was, so that a
\* repeated call returns the same order.
C11_TiesKeepInputOrder ==
    [][(call'.op \in {"get_overall_rankings", "get_group_rankings"}
          /\ call'.ret.type = "list")
       => (TiesInInputOrder(call'.ret.items, clubs) /\ UNCHANGED state)]_vars

\* A group ranking with a tie between two clubs, the club of the larger id
\* first.
C11_Witness ==
    /\ call.op = "get_group_rankings"
    /\ call.ret.type = "list"
    /\ Len(call.ret.items) >= 2
    /\ call.ret.items[1].overall_score = call.ret.items[2].overall_score
    /\ call.ret.items[1].club.id > call.ret.items[2].club.id

\* The club id of an item of a ranking.
ItemId(item) == IF item.type = "ClubRanking" THEN item.club.id ELSE item.club_id

\* C12: in the lists returned by evaluate_all_clubs and get_overall_rankings
\* clubs of equal overall score are ordered by club id: the smaller id has
\* the smaller rank, whatever the order of the input.
C12_TiesOrderedById ==
    (call.op \in {"evaluate_all_clubs", "get_overall_rankings"}
       /\ call.ret.type = "list")
    => \A i, j \in 1..Len(call.ret.items) :
          (call.ret.items[i].overall_score = call.ret.items[j].overall_score
             /\ ItemId(call.ret.items[i]) < ItemId(call.ret.items[j]))
          => call.ret.items[i].rank < call.ret.items[j].rank

\* The number of items of the list that are about the club of that id.
EntriesOf(items, id) == Cardinality({i \in 1..Len(items) : ItemId(items[i]) = id})

\* The club ids of the keys of a loaded source.
KeyIds(data) == {key_club_id(k) : k \in DOMAIN data}

\* C13: a returned ranking has every club exactly once, none being left out
\* for lack of data: get_overall_rankings has one entry per club of the
\* club list, evaluate_all_clubs one entry per club id that occurs in the
\* clubs data, the social-media data or the chat analysis, and no other
\* entry.
C13_EveryClubRankedOnce ==
    /\ (call.op = "get_overall_rankings" /\ call.ret.type = "list")
       => /\ Len(call.ret.items) = Len(clubs)
          /\ \A k \in 1..Len(clubs) :
                /\ EntriesOf(call.ret.items, clubs[k].id) = 1
                /\ \E i \in 1..Len(call.ret.items) :
                      call.ret.items[i].club = clubs[k]
    /\ (call.op = "evaluate_all_clubs" /\ call.ret.type = "list")
       => /\ \A id \in KeyIds(social_media_data) \cup KeyIds(whatsapp_data)
                        \cup DOMAIN clubs_data :
                EntriesOf(call.ret.items, id) = 1
          /\ \A i \in 1..Len(call.ret.items) :
                ItemId(call.ret.items[i]) \in
                    KeyIds(social_media_data) \cup KeyIds(whatsapp_data)
                        \cup DOMAIN clubs_data

\* evaluate_all_clubs ranked a club that occurs in the chat analysis only.
C13_Witness ==
    /\ call.op = "evaluate_all_clubs"
    /\ call.ret.type = "list"
    /\ \E i \in 1..Len(call.ret.items) :
          /\ ItemId(call.ret.items[i]) \in KeyIds(whatsapp_data)
          /\ ItemId(call.ret.items[i]) \notin KeyIds(social_media_data)
          /\ ItemId(call.ret.items[i]) \notin DOMAIN clubs_data

\* No vote is loaded: the voting file was absent or empty, it has no
\* vote_summary, or the summary has no categories.
NoVotesLoaded ==
    \/ DOMAIN voting_data = {}
    \/ "vote_summary" \notin DOMAIN voting_data
    \/ DOMAIN Get(voting_data.vote_summary, "categories", <<>>) = {}

\* C14: a signal for which no data of the club is loaded has the sub-score
\* 0.0: social media, events, WhatsApp activity, collaboration and voting
\* in calculate_club_metrics, social media in evaluate_club.
C14_NoDataScoresZero ==
    /\ (call.op = "calculate_club_metrics" /\ ~IsRaise(call.ret))
       => /\ ForClub(social_media_metrics, call.arg) = <<>>
                => call.ret.social_media_score = RInt(0)
          /\ ForClub(events, call.arg) = <<>>
                => call.ret.event_impact_score = RInt(0)
          /\ ForClub(whatsapp_activity, call.arg) = <<>>
                => call.ret.community_engagement_score = RInt(0)
          /\ (/\ ForClub(social_media_metrics, call.arg) = <<>>
              /\ ForClub(events, call.arg) = <<>>
              /\ ForClub(whatsapp_activity, call.arg) = <<>>)
                => call.ret.collaboration_score = RInt(0)
          /\ NoVotesLoaded => call.ret.voting_score = RInt(0)
    /\ (call.op = "evaluate_club" /\ ~IsRaise(call.ret)
          /\ club_key(call.arg) \notin DOMAIN social_media_data)
       => call.ret.social_media_score = RInt(0)

(***************************************************************************)
(* The groups of ClubGroupingService.                                      *)
(***************************************************************************)
\* The club is a member of the group.
MemberOf(club, group) == \E i \in 1..Len(group.clubs) : group.clubs[i] = club

\* The places of the groups of the list that have the club as a member.
GroupsOf(club, groups) == {g \in 1..Len(groups) : MemberOf(club, groups[g])}

\* C15: group_clubs puts every club into exactly one group; no club is in
\* two groups, also when its category and tags match several of the
\* rule-based categories.
C15_ExactlyOneGroup ==
    call.op = "group_clubs"
    => \A k \in 1..Len(clubs) :
          Cardinality(GroupsOf(clubs[k], call.ret.items)) = 1

\* The rule-based groups of the list: all but the catch-all group.
RuleBased(groups) ==
    SelectSeq(groups, LAMBDA group : group.group_name # "Miscellaneous")

\* The catch-all groups of the list.
CatchAll(groups) ==
    SelectSeq(groups, LAMBDA group : group.group_name = "Miscellaneous")

\* C16: for a non-empty club list every club is in at least one group of
\* group_clubs; the group "Miscellaneous" has exactly the clubs that are in
\* no rule-based group, and it is there only when there is such a club.
C16_MiscellaneousIsTheRest ==
    (call.op = "group_clubs" /\ clubs # <<>>)
    => /\ \A k \in 1..Len(clubs) : GroupsOf(clubs[k], call.ret.items) # {}
       /\ Len(CatchAll(call.ret.items)) <= 1
       /\ \A g \in 1..Len(CatchAll(call.ret.items)) :
             CatchAll(call.ret.items)[g].clubs =
                 SelectSeq(clubs, LAMBDA club :
                     GroupsOf(club, RuleBased(call.ret.items)) = {})
       /\ CatchAll(call.ret.items) # <<>>
             <=> \E k \in 1..Len(clubs) :
                    GroupsOf(clubs[k], RuleBased(call.ret.items)) = {}

\* Of two clubs one is in a rule-based group and the other in the
\* catch-all group.
C16_Witness ==
    /\ call.op = "group_clubs"
    /\ Len(clubs) = 2
    /\ RuleBased(call.ret.items) # <<>>
    /\ CatchAll(call.ret.items) # <<>>

\* C17: every group of group_clubs has a member and a similarity score
\* between 0 and 1; for an empty club list group_clubs returns the empty
\* list.
C17_GroupsAreNonEmptyAndScored ==
    call.op = "group_clubs"
    => /\ \A g \in 1..Len(call.ret.items) :
             /\ call.ret.items[g].clubs # <<>>
             /\ RLe(RInt(0), call.ret.items[g].similarity_score)
             /\ RLe(call.ret.items[g].similarity_score, RInt(1))
       /\ clubs = <<>> => call.ret.items = <<>>

\* A rule-based group of two clubs whose similarity is above 0 and below 1.
C17_Witness ==
    /\ call.op = "group_clubs"
    /\ \E g \in 1..Len(call.ret.items) :
          /\ call.ret.items[g].group_name # "Miscellaneous"
          /\ Len(call.ret.items[g].clubs) = 2
          /\ RLt(RInt(0), call.ret.items[g].similarity_score)
          /\ RLt(call.ret.items[g].similarity_score, RInt(1))

(***************************************************************************)
(* The JSON output files.                                                  *)
(***************************************************************************)
\* The file is absent or holds a whole JSON document.
Complete(file) ==
    file.type = "missing" \/ ~IsRaise(json_load(file.text))

\* C18: an output file is never left partially written: when the process
\* is killed during a save, the file holds what it held before the save
\* (or is still absent) or the whole new document.
C18_SavesAreAtomic ==
    (call.op \in {SaveMethod(path) : path \in OutputFiles}
       /\ call.ret = [type |-> "killed"])
    => /\ Complete(disk[call.arg.path])
       /\ \/ disk[call.arg.path] = call.arg.previous
          \/ disk[call.arg.path] = TextFile(json_dump(call.arg.data))

(***************************************************************************)
(* The loaders of ClubEvaluationService.                                   *)
(***************************************************************************)
\* The file is absent or cannot be parsed.
NotLoadable(file) == file.type # "json"

\* The items of a ranking have the no-data defaults for the sources whose
\* file is unreadable.
DefaultsForNotLoadable(items) ==
    \A i \in 1..Len(items) :
        /\ NotLoadable(disk.social_media_metrics)
              => items[i].metrics.social_media_score = RInt(0)
        /\ NotLoadable(disk.events)
              => items[i].metrics.event_impact_score = RInt(0)
        /\ NotLoadable(disk.whatsapp_activity)
              => items[i].metrics.community_engagement_score = RInt(0)
        /\ NotLoadable(disk.voting_data)
              => items[i].metrics.voting_score = RInt(5)

\* C19: the construction of the service completes whatever input files are
\* absent or unparsable, the loader of such a file giving the empty
\* collection; get_overall_rankings then ranks every club that was loaded,
\* an unreadable source contributing its no-data default, and it fails
\* only on a vote summary that was loaded, never for an unreadable file.
C19_UnreadableFilesLoadEmpty ==
    service = "ClubEvaluationService"
    => /\ NotLoadable(disk.clubs) => clubs = <<>>
       /\ NotLoadable(disk.events) => events = <<>>
       /\ NotLoadable(disk.social_media_metrics) => social_media_metrics = <<>>
       /\ NotLoadable(disk.whatsapp_activity) => whatsapp_activity = <<>>
       /\ NotLoadable(disk.voting_data) => voting_data = <<>>
       /\ call.op = "get_overall_rankings"
            => IF IsRaise(call.ret)
               THEN /\ ~NotLoadable(disk.voting_data)
                    /\ voting_data.vote_summary.total_votes = 0
               ELSE /\ Len(call.ret.items) = Len(clubs)
                    /\ DefaultsForNotLoadable(call.ret.items)

\* Three clubs were ranked by a service constructed on a directory whose
\* events file is no JSON and whose voting file is absent.
C19_Witness ==
    /\ service = "ClubEvaluationService"
    /\ disk.events = CorruptFile
    /\ disk.voting_data = NoFile
    /\ call.op = "get_overall_rankings"
    /\ call.ret.type = "list"
    /\ Len(call.ret.items) = 3

(***************************************************************************)
(* Exceptions of the evaluation methods.                                   *)
(***************************************************************************)
\* C20: whatever the club id and the loaded state, calculate_club_metrics,
\* get_overall_rankings and evaluate_all_clubs return a result: no
\* exception reaches the caller.
C20_NoExceptionEscapes ==
    call.op \in {"calculate_club_metrics", "get_overall_rankings",
                 "evaluate_all_clubs"}
    => ~IsRaise(call.ret)

(***************************************************************************)
(* The response patterns of the chat analyzer.                             *)
(***************************************************************************)
\* C21: the response rate is 0 when no message is question-like; a
\* question contributes at most one quick response, so that
\* quick_responses <= total_questions and the rate is between 0 and 100.
C21_ResponseRateInRange ==
    call.op = "_analyze_response_patterns"
    => /\ call.ret.total_questions = 0
             => call.ret.response_rate_percentage = RInt(0)
       /\ call.ret.quick_responses <= call.ret.total_questions
       /\ RLe(RInt(0), call.ret.response_rate_percentage)
       /\ RLe(call.ret.response_rate_percentage, RInt(100))

\* Of several questions some, not all, were answered quickly.
C21_Witness ==
    /\ call.op = "_analyze_response_patterns"
    /\ call.ret.total_questions >= 2
    /\ call.ret.quick_responses >= 1
    /\ call.ret.quick_responses < call.ret.total_questions

(***************************************************************************)
(* The sub-terms of the chat engagement score.                             *)
(***************************************************************************)
\* C22: the participation sub-term is at its cap 2.0 exactly when the log
\* has 20 or more unique senders, and the volume sub-term is at its cap 2.0
\* exactly when the log has 100 or more messages.
C22_CapsReachedAtThresholds ==
    call.op = "_calculate_engagement_score"
    => /\ participation_score(call.arg.unique_senders) = RInt(2)
             <=> call.arg.unique_senders >= 20
       /\ volume_score(call.arg.total_messages) = RInt(2)
             <=> call.arg.total_messages >= 100

(***************************************************************************)
(* The content analysis of a chat log.                                     *)
(***************************************************************************)
\* The lowercased body of the line contains one of the keywords.
HasKeyword(line, keywords) ==
    \E keyword \in keywords : contains(lower(strip(line.body)), keyword)

\* The number of well-formed lines with a keyword of the category.
CountWith(lines, keywords) ==
    Cardinality({i \in WellFormedAt(lines) : HasKeyword(lines[i], keywords)})

\* The engagement score of the analysis, were its content sub-term
\* min(matched / N * 5, 3.0).
ScoreWithContentOf(analysis, matched) ==
    Capped(RAdd(RAdd(Capped(Rat(10 * analysis.total_messages,
                                analysis.total_lines), RInt(3)),
                     Capped(Rat(analysis.unique_senders, 20), RInt(2))),
                RAdd(Capped(Rat(5 * matched, analysis.total_messages), RInt(3)),
                     Capped(Rat(analysis.total_messages, 100), RInt(2)))),
           RInt(10))

\* A log with at least one message was analysed.
AnalysedMessages ==
    /\ call.op = "analyze_chat_file"
    /\ Readable(call.arg)
    /\ WellFormedAt(call.arg.lines) # {}

\* C23 as stated: for a log of N > 0 messages of which E contain an event
\* keyword, the event-related count is E and the content sub-term of the
\* engagement score is min(E/N * 5, 3.0).
C23_ContentTermFromEvents ==
    AnalysedMessages
    => /\ call.ret.content_analysis.event_related
             = CountWith(call.arg.lines, event_keywords)
       /\ call.ret.engagement_score
             = ScoreWithContentOf(call.ret,
                   CountWith(call.arg.lines, event_keywords))

\* C23 amended: the event-related count is E, a message being counted once
\* per category whatever the number of keywords it contains, and the
\* content sub-term is min((E + H + P)/N * 5, 3.0), H and P being the
\* numbers of messages with a help keyword and with a positive-engagement
\* keyword.
C23_ContentTermFromCategories ==
    AnalysedMessages
    => /\ call.ret.content_analysis.event_related
             = CountWith(call.arg.lines, event_keywords)
       /\ call.ret.content_analysis.help_requests
             = CountWith(call.arg.lines, help_keywords)
       /\ call.ret.content_analysis.positive_engagement
             = CountWith(call.arg.lines, engagement_keywords)
       /\ call.ret.engagement_score
             = ScoreWithContentOf(call.ret,
                   CountWith(call.arg.lines, event_keywords)
                   + CountWith(call.arg.lines, help_keywords)
                   + CountWith(call.arg.lines, engagement_keywords))

\* A log of three messages: one with two event keywords, one with a help
\* keyword, one with no keyword.
C23_Witness ==
    /\ AnalysedMessages
    /\ call.ret.total_messages = 3
    /\ call.ret.content_analysis.event_related = 1
    /\ call.ret.content_analysis.help_requests = 1
    /\ call.ret.content_analysis.positive_engagement = 0

(***************************************************************************)
(* Quick responses.                                                        *)
(***************************************************************************)
\* The minutes from midnight of the time field of a message.
TimeOfDay(time) ==
    CASE time = <<"9", ":", "0", "5">> -> 9 * 60 + 5
      [] time = <<"1", "0", ":", "3", "0", " ", "p", "m">> -> 22 * 60 + 30

\* The timestamp of a message in minutes: its date and its time of day.
Timestamp(msg) == toordinal(msg.date) * 1440 + TimeOfDay(msg.time)

\* The places of the questions of the list.
Questions(messages) == {q \in 1..Len(messages) : is_question(messages[q])}

\* The question at q has, among the 5 messages after it, a message of
\* another sender whose timestamp is at most 2 hours after its own.
AnsweredInTime(messages, q) ==
    \E j \in (q + 1)..(q + 5) :
        /\ j <= Len(messages)
        /\ messages[j].sender # messages[q].sender
        /\ Timestamp(messages[j]) - Timestamp(messages[q]) \in 0..120

\* C24: a quick response is recorded only for a question that has, among
\* the 5 messages after it, a message of another sender with a timestamp
\* (date and time of day) at most 2 hours later; the latencies recorded,
\* and so their mean, lie in [0, 120) minutes.
C24_QuickResponsesAreInTime ==
    call.op = "_analyze_response_patterns"
    => /\ call.ret.quick_responses
             <= Cardinality({q \in Questions(call.arg) :
                                AnsweredInTime(call.arg, q)})
       /\ RLe(RInt(0), call.ret.avg_response_time_minutes)
       /\ RLt(call.ret.avg_response_time_minutes, RInt(120))

\* The question at q has, among the 5 messages after it, a message of
\* another sender that the analyzer's clock puts less than 2 hours after it.
AnsweredByAny(messages, q) ==
    \E j \in (q + 1)..(q + 5) :
        /\ j <= Len(messages)
        /\ messages[j].sender # messages[q].sender
        /\ minutes_between(messages[j].date, messages[q].date) < 120

\* C25: a question is counted as quickly answered if and only if one of the
\* 5 messages after it is from another sender and within 2 hours, also
\* when an earlier message of another sender in that window is more than 2
\* hours away.
C25_AnyAnswerInWindowCounts ==
    call.op = "_analyze_response_patterns"
    => call.ret.quick_responses
           = Cardinality({q \in Questions(call.arg) :
                             AnsweredByAny(call.arg, q)})

(***************************************************************************)
(* Activity histograms.                                                    *)
(***************************************************************************)
\* The hour of day, 0..23, of the time field of a line.
HourOfDay(line) == TimeOfDay(strip(line.time)) \div 60

\* The count of a histogram under a key, 0 for a key it does not have.
Bucket(histogram, key) ==
    IF key \in DOMAIN histogram THEN histogram[key] ELSE 0

\* The sum of the counts of a histogram.
RECURSIVE HistogramTotal(_, _)
HistogramTotal(histogram, keys) ==
    IF keys = {} THEN 0
    ELSE LET k == CHOOSE x \in keys : TRUE
         IN  histogram[k] + HistogramTotal(histogram, keys \ {k})

\* C26: every parsed message is counted once in the monthly histogram under
\* the year and month of its date and once in the hourly histogram under
\* the hour of day of its time field; each histogram sums to
\* total_messages.
C26_HistogramsCountEveryMessage ==
    AnalysedMessages
    => LET lines == call.arg.lines
           monthly == call.ret.activity_analysis.monthly
           hourly == call.ret.activity_analysis.hourly
       IN  /\ \A i \in WellFormedAt(lines) :
                  Bucket(monthly, <<LineYear(lines[i]), LineMonth(lines[i])>>)
                      = Cardinality({j \in WellFormedAt(lines) :
                            /\ LineYear(lines[j]) = LineYear(lines[i])
                            /\ LineMonth(lines[j]) = LineMonth(lines[i])})
           /\ \A i \in WellFormedAt(lines) :
                  Bucket(hourly, HourOfDay(lines[i]))
                      = Cardinality({j \in WellFormedAt(lines) :
                            HourOfDay(lines[j]) = HourOfDay(lines[i])})
           /\ HistogramTotal(monthly, DOMAIN monthly)
                  = call.ret.total_messages
           /\ HistogramTotal(hourly, DOMAIN hourly) = call.ret.total_messages

(***************************************************************************)
(* Claims on the data integration service.                                 *)
(***************************************************************************)
\* The followers a snapshot value stands for: its number when it is a
\* string of digits and separators, 0 when it is anything else.
FollowersOrZero(value) ==
    IF IsRaise(followers_int(value)) THEN 0 ELSE followers_int(value).v

\* The metric records written by the last integrate_all_data.
WrittenMetrics == disk.social_media_metrics.v.social_media_metrics

\* The snapshot has been integrated.
Integrated ==
    disk.social_media_data.type = "json" /\ disk.social_media_metrics.type = "json"

\* The platforms of the entry at place i of the snapshot.
PlatformsAt(i) == DOMAIN Get(disk.social_media_data.v[i].data, "social_media", <<>>)

\* C27: a malformed follower value of one club and platform is recovered
\* as 0 followers for that record, and the records of the other clubs and
\* platforms of the snapshot are still returned.
C27_MalformedFollowersAreZero ==
    Integrated
    => \A i \in 1..Len(disk.social_media_data.v) :
          \A platform \in PlatformsAt(i) :
             \E k \in 1..Len(WrittenMetrics) :
                /\ WrittenMetrics[k].club_id = disk.social_media_data.v[i].data.club_id
                /\ WrittenMetrics[k].platform = platform
                /\ WrittenMetrics[k].followers
                      = FollowersOrZero(
                            disk.social_media_data.v[i].data.social_media[platform].followers)

\* C28: no operation of a pipeline run modifies an input file: clubs.json,
\* the scraped social snapshot and the chat logs have after every step the
\* content they had before it.
C28_InputFilesAreNotModified ==
    [][/\ disk'.clubs = disk.clubs
       /\ disk'.social_media_data = disk.social_media_data
       /\ disk'.events = disk.events
       /\ disk'.voting_data = disk.voting_data
       /\ chat_dir' = chat_dir]_vars

\* The snapshot is there and every follower value of it is a string of
\* digits and separators; clubs.json is there.
WellFormedSnapshot ==
    /\ disk.social_media_data.type = "json"
    /\ disk.clubs.type = "json"
    /\ \A i \in 1..Len(disk.social_media_data.v) :
           \A platform \in PlatformsAt(i) :
              ~IsRaise(followers_int(
                  disk.social_media_data.v[i].data.social_media[platform].followers))

\* The club has an entry in the snapshot.
InSnapshot(club) ==
    \E i \in 1..Len(disk.social_media_data.v) :
        disk.social_media_data.v[i].data.club_id = club.id

\* C29: with a snapshot of well-formed follower strings, an update of
\* clubs.json decreases no member_count and leaves the member_count of a
\* club without snapshot entry as it was, and an update after the first
\* one leaves clubs.json as it was.
C29_MemberCountsOnlyGrowOnce ==
    [][(call.op = "none" /\ call'.op = "integrate_all_data"
            /\ WellFormedSnapshot)
       => /\ disk'.clubs.type = "json"
          /\ Len(disk'.clubs.v.clubs) = Len(disk.clubs.v.clubs)
          /\ \A i \in 1..Len(disk.clubs.v.clubs) :
                 /\ disk'.clubs.v.clubs[i].member_count
                        >= disk.clubs.v.clubs[i].member_count
                 /\ ~InSnapshot(disk.clubs.v.clubs[i])
                        => disk'.clubs.v.clubs[i].member_count
                               = disk.clubs.v.clubs[i].member_count
          /\ disk.social_media_metrics.type = "json"
                 => disk'.clubs = disk.clubs]_vars

\* A second update of three clubs: one was raised to 360 members by the
\* first, one kept its 500 members and one has no snapshot entry.
C29_Witness ==
    /\ call.op = "integrate_all_data"
    /\ WellFormedSnapshot
    /\ runs # <<>>
    /\ \E i, j, k \in 1..Len(disk.clubs.v.clubs) :
           /\ InSnapshot(disk.clubs.v.clubs[i])
           /\ disk.clubs.v.clubs[i].member_count = 360
           /\ InSnapshot(disk.clubs.v.clubs[j])
           /\ disk.clubs.v.clubs[j].member_count = 500
           /\ ~InSnapshot(disk.clubs.v.clubs[k])

(***************************************************************************)
(* Claims on the club queries.                                             *)
(***************************************************************************)
\* C30: the query for a club id that no loaded club has is answered with
\* 'Club not found' (HTTP 404), not with a server error (HTTP 500), and
\* ClubService.get_club_by_id returns None for that id.
C30_UnknownIdIsNotFound ==
    (/\ call.op = "GET /clubs/{club_id}"
     /\ \A i \in 1..Len(clubs) : clubs[i].id # call.arg)
    => /\ ClubService_get_club_by_id(clubs, call.arg, 1) = None
       /\ IsRaise(call.ret)
       /\ call.ret.status_code = 404
       /\ call.ret.detail = "Club not found"

====
